---- MODULE Spec2Model ----
(***************************************************************************)
(* Keyframe timeline of the puppet-animation editor: the evaluator         *)
(* (timelineUtils: findSpan, evaluate*, computeOverrides), the recorder    *)
(* (upsertKeyframe, addKeyframesFromUpdate), the timeline store and the    *)
(* Timeline component's playback tick.                                     *)
(*                                                                         *)
(* Numbers.  Object coordinates and angles are JavaScript numbers and are  *)
(* not integers in general (a drag stores d.x, d.y, a limb rotation stores *)
(* an unrounded atan2 angle).  A stored number is modelled as an integer   *)
(* count of 1/Scale units, an interpolated number as an exact fraction     *)
(* [num, den]; IEEE rounding error of the float arithmetic is not          *)
(* modelled.  Frames are integers.                                         *)
(***************************************************************************)
EXTENDS Integers, Sequences, FiniteSets, TLC

(* ------------------------------ bounds -------------------------------- *)

\* resolution of a stored number: it is a multiple of 1/Scale
Scale == 2

\* frames used by the evaluator specification are 0..MaxFrame
MaxFrame == 3

\* longest keyframe list the evaluator specification draws
MaxKeyframes == 3

\* timeline length (frames) of the editing specification; the store's default
\* of 240 frames is scaled down, the toolbar can set any length from 1 to 3600
EditDuration == 1

\* most tracks the editing specification lets the timeline grow to
MaxTracks == 2

\* the playback specification: the Duree input clamps to 1..MaxDuration (3600
\* in the toolbar), the FPS input to 1..MaxFps (120 in the toolbar)
MaxDuration == 3
MaxFps == 2

\* clock units per second (1000, milliseconds, in the code) and the longest
\* time the playback specification lets pass without a tick consuming a frame
UnitsPerSecond == 2
MaxElapsed == 4

\* longest time a playback run is measured for
MaxRunTime == 6

\* stored numbers (in 1/Scale units) the specifications draw from:
\* with Scale = 2 these are -1.5, 0 and 0.5
ValueSet == {-3, 0, 1}

\* A keyframe value is a record tagged by its type: [x, y] for a position,
\* [n] for an angle, [b] for a visibility.
NumberValues == [n : ValueSet]
BooleanValues == [b : BOOLEAN]

\* positions the specifications draw from (x, y in 1/Scale units)
PointSet == {[x |-> 0, y |-> 0], [x |-> 1, y |-> -3], [x |-> -3, y |-> 1]}

InterpolationSet == {"linear", "step", "absent"}

ObjectIds == {"o1", "o2"}

\* interactive parts of the puppets of the model
Parts == {"tete", "main_droite"}

(* ------------------------------- state -------------------------------- *)

VARIABLES
  fps,            \* TimelineState.fps
  duration,       \* TimelineState.duration
  currentFrame,   \* TimelineState.currentFrame
  isPlaying,      \* TimelineState.isPlaying
  loop,           \* TimelineState.loop
  tracks,         \* TimelineState.tracks: sequence of tracks
  autoKeyframe,   \* TimelineState.autoKeyframe
  overrides,      \* SvgOverrides last computed from (currentFrame, tracks)
  svgObjects,     \* editor store: object id -> the object's animatable fields
  selectedObjectId, \* editor store: selected object id or "none"
  lastTick,       \* Timeline.lastTickRef: <<>> (0, unset) or <<time elapsed since it>>
  rafPending,     \* Timeline.rafRef: an animation-frame callback is scheduled
  effectPlaying,  \* value of isPlaying the playback effect last ran with
  run,            \* measurement of a playback run: <<0>> armed, <<2>> off, or
                  \* <<1, time since the first tick, frames advanced, first frame>>
  pantin,         \* a puppet's rotation controller (refs, listeners, props, callbacks)
  dom,            \* what the program last read from its surroundings: the refs and the
                  \* screen at an attach / detach, the clock at a creation
  last            \* the operation that produced this state, with its inputs

timelineVars == <<fps, duration, currentFrame, isPlaying, loop, tracks, autoKeyframe>>
editorVars == <<svgObjects, selectedObjectId>>
playbackVars == <<lastTick, rafPending, effectPlaying>>
vars == <<fps, duration, currentFrame, isPlaying, loop, tracks, autoKeyframe,
          overrides, svgObjects, selectedObjectId, lastTick, rafPending,
          effectPlaying, run, pantin, dom, last>>

(* ------------------------- numbers as fractions ----------------------- *)

\* a stored number v (in 1/Scale units) as a fraction
ToQ(v) == [num |-> v, den |-> Scale]

\* Math.round of a fraction with den > 0: floor(q + 1/2), ties go up
MathRound(q) == (2 * q.num + q.den) \div (2 * q.den)

\* a + (b - a) * t for stored numbers a, b and a fraction t
lerpNoStart(a, b, t) == [num |-> (b - a) * t.num, den |-> Scale * t.den]
lerp(a, b, t) == [num |-> a * t.den + (b - a) * t.num, den |-> Scale * t.den]

(* ------------------------------ evaluator ----------------------------- *)

RECURSIVE findSpanLoop(_, _, _, _)
\* the for loop of findSpan from index i with prev so far; 0 stands for null
findSpanLoop(keyframes, frame, i, prev) ==
  IF i > Len(keyframes) THEN [prev |-> prev, next |-> 0]
  ELSE LET k == keyframes[i] IN
       IF k.frame = frame THEN [prev |-> i, next |-> i]
       ELSE LET p == IF k.frame < frame THEN i ELSE prev IN
            IF k.frame > frame THEN [prev |-> p, next |-> i]
            ELSE findSpanLoop(keyframes, frame, i + 1, p)

RECURSIVE findSpanNoBreakLoop(_, _, _, _, _)
findSpanNoBreakLoop(keyframes, frame, i, prev, next) ==
  IF i > Len(keyframes) THEN [prev |-> prev, next |-> next]
  ELSE LET k == keyframes[i] IN
       IF k.frame = frame THEN [prev |-> i, next |-> i]
       ELSE findSpanNoBreakLoop(keyframes, frame, i + 1,
                                IF k.frame < frame THEN i ELSE prev,
                                IF k.frame > frame THEN i ELSE next)

\* findSpan without the break: next is the last later keyframe
findSpanNoBreak(keyframes, frame) == findSpanNoBreakLoop(keyframes, frame, 1, 0, 0)

\* findSpan without the exact-match return
findSpanNoExact(keyframes, frame) ==
  LET s == findSpanLoop(keyframes, frame, 1, 0) IN
  IF s.prev = s.next /\ s.prev # 0
  THEN [prev |-> s.prev - 1, next |-> IF s.next < Len(keyframes) THEN s.next + 1 ELSE 0]
  ELSE s

\* indices of the keyframes around frame (0 = null); prev = next on an exact match
findSpan(keyframes, frame) ==
  IF Len(keyframes) = 0 THEN [prev |-> 0, next |-> 0]
  ELSE findSpanLoop(keyframes, frame, 1, 0)

\* next.interpolation ?? 'linear'
interpOf(k) == IF k.interpolation = "absent" THEN "linear" ELSE k.interpolation

\* t = span === 0 ? 0 : (frame - prev.frame) / span
spanT(prev, next, frame) ==
  LET span == next.frame - prev.frame IN
  IF span = 0 THEN [num |-> 0, den |-> 1] ELSE [num |-> frame - prev.frame, den |-> span]

\* <<>> for null, else <<[x, y]>> with x, y fractions
evaluatePosition(keyframes, frame) ==
  LET s == findSpan(keyframes, frame) IN
  IF s.prev = 0 /\ s.next = 0 THEN <<>>
  ELSE IF s.next = 0 THEN <<[x |-> ToQ(keyframes[s.prev].value.x), y |-> ToQ(keyframes[s.prev].value.y)]>>
  ELSE IF s.prev = 0 THEN <<[x |-> ToQ(keyframes[s.next].value.x), y |-> ToQ(keyframes[s.next].value.y)]>>
  ELSE LET prev == keyframes[s.prev]
           next == keyframes[s.next] IN
       IF s.prev = s.next THEN <<[x |-> ToQ(prev.value.x), y |-> ToQ(prev.value.y)]>>
       ELSE IF interpOf(next) = "step" THEN <<[x |-> ToQ(prev.value.x), y |-> ToQ(prev.value.y)]>>
       ELSE LET t == spanT(prev, next, frame) IN
            <<[x |-> lerp(prev.value.x, next.value.x, t),
               y |-> lerp(prev.value.y, next.value.y, t)]>>

\* evaluateNumber reading the policy from prev instead of next
evaluateNumberPrevPolicy(keyframes, frame) ==
  LET s == findSpan(keyframes, frame) IN
  IF s.prev = 0 /\ s.next = 0 THEN <<>>
  ELSE IF s.next = 0 THEN <<ToQ(keyframes[s.prev].value.n)>>
  ELSE IF s.prev = 0 THEN <<ToQ(keyframes[s.next].value.n)>>
  ELSE LET prev == keyframes[s.prev]
           next == keyframes[s.next] IN
       IF s.prev = s.next \/ interpOf(prev) = "step" THEN <<ToQ(prev.value.n)>>
       ELSE <<lerp(prev.value.n, next.value.n, spanT(prev, next, frame))>>

\* <<>> for null, else <<q>> with q a fraction
evaluateNumber(keyframes, frame) ==
  LET s == findSpan(keyframes, frame) IN
  IF s.prev = 0 /\ s.next = 0 THEN <<>>
  ELSE IF s.next = 0 THEN <<ToQ(keyframes[s.prev].value.n)>>
  ELSE IF s.prev = 0 THEN <<ToQ(keyframes[s.next].value.n)>>
  ELSE LET prev == keyframes[s.prev]
           next == keyframes[s.next] IN
       IF s.prev = s.next THEN <<ToQ(prev.value.n)>>
       ELSE IF interpOf(next) = "step" THEN <<ToQ(prev.value.n)>>
       ELSE <<lerp(prev.value.n, next.value.n, spanT(prev, next, frame))>>

\* evaluateVisibility preferring next over prev
evaluateVisibilityNext(keyframes, frame) ==
  LET s == findSpan(keyframes, frame) IN
  IF s.prev = 0 /\ s.next = 0 THEN <<>>
  ELSE IF s.next = 0 THEN <<keyframes[s.prev].value.b>>
  ELSE <<keyframes[s.next].value.b>>

\* <<>> for null, else <<b>>
evaluateVisibility(keyframes, frame) ==
  LET s == findSpan(keyframes, frame) IN
  IF s.prev = 0 /\ s.next = 0 THEN <<>>
  ELSE IF s.next = 0 THEN <<keyframes[s.prev].value.b>>
  ELSE IF s.prev # 0 THEN <<keyframes[s.prev].value.b>> ELSE <<keyframes[s.next].value.b>>

\* a patch is a function whose domain is the set of fields it carries
EmptyPatch == [k \in {} |-> 0]

\* the switch of computeOverrides for one track, applied to the patch so far
overrideOfTrack(patch, track, frame) ==
  CASE track.property = "position" ->
         LET value == evaluatePosition(track.keyframes, frame) IN
         IF value # <<>>
         THEN ("x" :> MathRound(value[1].x)) @@ ("y" :> MathRound(value[1].y)) @@ patch
         ELSE patch
    [] track.property = "rotation" ->
         LET value == evaluateNumber(track.keyframes, frame) IN
         IF value # <<>> THEN ("rotation" :> MathRound(value[1])) @@ patch ELSE patch
    [] track.property = "visibility" ->
         LET value == evaluateVisibility(track.keyframes, frame) IN
         IF value # <<>> THEN ("hidden" :> ~value[1]) @@ patch ELSE patch
    [] track.property = "articulation" ->
         LET value == evaluateNumber(track.keyframes, frame) IN
         IF value # <<>>
         THEN LET existing == IF "articulation" \in DOMAIN patch
                              THEN patch.articulation ELSE EmptyPatch IN
              ("articulation" :> ((track.part :> MathRound(value[1])) @@ existing)) @@ patch
         ELSE patch

RECURSIVE computeOverridesLoop(_, _, _, _)
\* the for loop of computeOverrides over tracks[i..]
computeOverridesLoop(trks, frame, i, acc) ==
  IF i > Len(trks) THEN acc
  ELSE LET track == trks[i]
           targetId == track.objectId
           acc1 == IF targetId \in DOMAIN acc THEN acc ELSE (targetId :> EmptyPatch) @@ acc
           acc2 == (targetId :> overrideOfTrack(acc1[targetId], track, frame)) @@ acc1
       IN computeOverridesLoop(trks, frame, i + 1, acc2)

\* SvgOverrides: object id -> patch
computeOverrides(frame, trks) == computeOverridesLoop(trks, frame, 1, EmptyPatch)

(* ------------------------------ recorder ------------------------------ *)

RECURSIVE insertByFrame(_, _)
\* kf inserted into the sorted list s after the keyframes whose frame is <= its own
insertByFrame(s, kf) ==
  IF s = <<>> THEN <<kf>>
  ELSE IF kf.frame < s[1].frame THEN <<kf>> \o s
  ELSE <<s[1]>> \o insertByFrame(Tail(s), kf)

RECURSIVE sortByFrame(_)
\* Array.prototype.sort((a, b) => a.frame - b.frame): a stable sort by frame
sortByFrame(s) ==
  IF s = <<>> THEN <<>>
  ELSE insertByFrame(sortByFrame(SubSeq(s, 1, Len(s) - 1)), s[Len(s)])

\* arr.filter(k => k.frame !== frame)
removeAtSame(arr, frame) ==
  LET keep(k) == k.frame # frame IN SelectSeq(arr, keep)

\* upsertKeyframe without the filter: the old keyframe of the frame stays
upsertKeyframeNoFilter(arr, kf) == sortByFrame(Append(arr, kf))

\* upsertKeyframe: filter, push, sort
upsertKeyframe(arr, kf) == sortByFrame(Append(removeAtSame(arr, kf.frame), kf))

\* the track ensureTrack's find matches (objectId, property, and part for articulation)
matchesTrack(t, objectId, property, part) ==
  /\ t.objectId = objectId
  /\ t.property = property
  /\ (property # "articulation" \/ t.part = part)

\* index of the first matching track, 0 when there is none (Array.prototype.find)
findTrack(trks, objectId, property, part) ==
  LET hits == {i \in 1..Len(trks) : matchesTrack(trks[i], objectId, property, part)} IN
  IF hits = {} THEN 0 ELSE CHOOSE i \in hits : \A j \in hits : i <= j

\* a track id: `trk-<random>`, modelled as the first number no track of trks carries
uid(trks) ==
  CHOOSE n \in 1..(Len(trks) + 1) : \A i \in 1..Len(trks) : trks[i].id # n

\* ensureTrack of addKeyframesFromUpdate: the tracks with the matching track
\* appended (empty) when it is missing
ensureTrack(trks, objectId, property, part) ==
  IF findTrack(trks, objectId, property, part) # 0 THEN trks
  ELSE Append(trks, [id |-> uid(trks), objectId |-> objectId, property |-> property,
                     part |-> part, keyframes |-> <<>>])

\* t.keyframes = upsertKeyframe(t.keyframes, kf) on the ensured track
upsertOnTrack(trks, objectId, property, part, kf) ==
  LET ensured == ensureTrack(trks, objectId, property, part)
      i == findTrack(ensured, objectId, property, part) IN
  [ensured EXCEPT ![i].keyframes = upsertKeyframe(@, kf)]

\* typeof newProps.<field> === 'number' / 'boolean': the patch carries the field
Has(patch, field) == field \in DOMAIN patch

\* the Position block of addKeyframesFromUpdate dropping the object's coordinate
recordPositionPatchOnly(trks, frame, object, newProps) ==
  IF Has(newProps, "x") \/ Has(newProps, "y")
  THEN LET x == IF Has(newProps, "x") THEN newProps.x ELSE 0
           y == IF Has(newProps, "y") THEN newProps.y ELSE 0 IN
       upsertOnTrack(trks, object.id, "position", "none",
                     [frame |-> frame, value |-> [x |-> x, y |-> y], interpolation |-> "linear"])
  ELSE trks

\* the Position block of addKeyframesFromUpdate
recordPosition(trks, frame, object, newProps) ==
  IF Has(newProps, "x") \/ Has(newProps, "y")
  THEN LET x == IF Has(newProps, "x") THEN newProps.x ELSE object.x
           y == IF Has(newProps, "y") THEN newProps.y ELSE object.y IN
       upsertOnTrack(trks, object.id, "position", "none",
                     [frame |-> frame, value |-> [x |-> x, y |-> y], interpolation |-> "linear"])
  ELSE trks

\* the Rotation block
recordRotation(trks, frame, object, newProps) ==
  IF Has(newProps, "rotation")
  THEN upsertOnTrack(trks, object.id, "rotation", "none",
                     [frame |-> frame, value |-> [n |-> newProps.rotation],
                      interpolation |-> "linear"])
  ELSE trks

\* the Visibility block
recordVisibility(trks, frame, object, newProps) ==
  IF Has(newProps, "hidden")
  THEN upsertOnTrack(trks, object.id, "visibility", "none",
                     [frame |-> frame, value |-> [b |-> ~newProps.hidden],
                      interpolation |-> "step"])
  ELSE trks

\* the order in which Object.entries visits the parts of an articulation patch
PartOrder == <<"tete", "main_droite">>

RECURSIVE recordArticulationLoop(_, _, _, _, _)
\* the forEach over Object.entries(newProps.articulation), from entry i
recordArticulationLoop(trks, frame, object, articulation, i) ==
  IF i > Len(PartOrder) THEN trks
  ELSE LET part == PartOrder[i]
           next == IF part \in DOMAIN articulation
                   THEN upsertOnTrack(trks, object.id, "articulation", part,
                                      [frame |-> frame, value |-> [n |-> articulation[part]],
                                       interpolation |-> "linear"])
                   ELSE trks
       IN recordArticulationLoop(next, frame, object, articulation, i + 1)

\* the Articulation block
recordArticulation(trks, frame, object, newProps) ==
  IF Has(newProps, "articulation")
  THEN recordArticulationLoop(trks, frame, object, newProps.articulation, 1)
  ELSE trks

\* addKeyframesFromUpdate(timeline, object, newProps).tracks, the timeline
\* given by its currentFrame and tracks
addKeyframesFromUpdate(frame, trks, object, newProps) ==
  recordArticulation(
    recordVisibility(
      recordRotation(
        recordPosition(trks, frame, object, newProps),
        frame, object, newProps),
      frame, object, newProps),
    frame, object, newProps)

(* ------------------- evaluator specification (EvalSpec) ---------------- *)
(* The evaluator is a pure function of (tracks, currentFrame).  EvalSpec   *)
(* starts from every timeline holding one track drawn from the bounded     *)
(* sets below (keyframes sorted by strictly increasing frame, as           *)
(* upsertKeyframe keeps them; any interpolation field, as a persisted      *)
(* timeline may carry), optionally with a second track of another part of  *)
(* the same object, and moves the playhead with scrubTo.                   *)

RECURSIVE SortedSeqOf(_)
\* the elements of a finite set of integers in ascending order
SortedSeqOf(F) ==
  IF F = {} THEN <<>>
  ELSE LET m == CHOOSE x \in F : \A y \in F : x <= y IN <<m>> \o SortedSeqOf(F \ {m})

\* the keyframe list with frames F (ascending) and contents c[f]
KeyframeSeq(F, c) ==
  LET fs == SortedSeqOf(F) IN
  [i \in 1..Len(fs) |-> [frame |-> fs[i], value |-> c[fs[i]].value,
                         interpolation |-> c[fs[i]].interpolation]]

\* sets of at most MaxKeyframes frames of 0..MaxFrame
FrameSets == {G \in SUBSET (0..MaxFrame) : Cardinality(G) <= MaxKeyframes}

TrackKinds == {[property |-> "position", part |-> "none"],
               [property |-> "rotation", part |-> "none"],
               [property |-> "visibility", part |-> "none"],
               [property |-> "articulation", part |-> "tete"]}

\* the values a keyframe of a track of this property holds
ValuesOf(property) ==
  CASE property = "position" -> PointSet
    [] property = "visibility" -> BooleanValues
    [] OTHER -> NumberValues

\* a second articulation track of the same object, for another part
CompanionTrack ==
  [id |-> 2, objectId |-> "o1", property |-> "articulation", part |-> "main_droite",
   keyframes |-> <<[frame |-> 1, value |-> [n |-> 1], interpolation |-> "linear"]>>]

\* a puppet: its interactive parts come from its SVG content
DefaultObject == [id |-> "o1", x |-> 0, y |-> 0, rotation |-> 0, hidden |-> FALSE,
                  articulation |-> [p \in Parts |-> 0], parts |-> PartOrder]

EvalInit ==
  /\ \E F \in FrameSets, kind \in TrackKinds :
       \E c \in [F -> [value : ValuesOf(kind.property), interpolation : InterpolationSet]] :
         LET t == [id |-> 1, objectId |-> "o1", property |-> kind.property,
                   part |-> kind.part, keyframes |-> KeyframeSeq(F, c)]
         IN tracks \in {<<t>>, <<CompanionTrack, t>>}
  /\ fps = 24
  /\ duration = MaxFrame
  /\ currentFrame = 0
  /\ isPlaying = FALSE
  /\ loop = TRUE
  /\ autoKeyframe = TRUE
  /\ overrides = computeOverrides(currentFrame, tracks)
  /\ svgObjects = [o \in {"o1"} |-> DefaultObject]
  /\ selectedObjectId = "none"
  /\ lastTick = <<>>
  /\ rafPending = FALSE
  /\ effectPlaying = FALSE
  /\ run = <<2>>
  /\ pantin = <<>>
  /\ dom = <<>>
  /\ last = "init"

\* clampFrame: Math.max(min, Math.min(max, frame))
clampFrame(frame, min, max) ==
  LET m == IF frame < max THEN frame ELSE max IN IF m > min THEN m ELSE min

\* store.scrubTo(frame) for an integer frame (Math.round is the identity on it)
scrubTo(frame) ==
  /\ currentFrame' = clampFrame(frame, 0, duration)
  /\ overrides' = computeOverrides(currentFrame', tracks)
  /\ last' = "scrubTo"
  /\ UNCHANGED <<run, pantin, dom>>
  /\ UNCHANGED <<fps, duration, isPlaying, loop, tracks, autoKeyframe>>
  /\ UNCHANGED <<editorVars, playbackVars>>

EvalScrub == last = "init" /\ \E f \in 0..MaxFrame : scrubTo(f)

EvalNext == EvalScrub

EvalSpec == EvalInit /\ [][EvalNext]_vars

(* ----------------------- editing specification (Spec) ------------------ *)
(* The timeline store and the editor's objects under edits: scrubbing,     *)
(* play/pause, the auto-keyframe switch, property updates captured by the  *)
(* recorder, manual Add-keyframe, deleteKeyframe and clear.  Playback      *)
(* ticks are in PlaySpec: they write currentFrame and isPlaying only, with *)
(* values scrubTo and play/pause reach here.                               *)

\* property patches of an update (numbers in 1/Scale units)
PatchSet ==
  {("x" :> 1), ("hidden" :> TRUE)}

Init ==
  /\ fps = 24
  /\ duration = EditDuration
  /\ currentFrame = 0
  /\ isPlaying = FALSE
  /\ loop = TRUE
  /\ tracks = <<>>
  /\ autoKeyframe = TRUE
  /\ overrides = computeOverrides(currentFrame, tracks)
  /\ svgObjects = [o \in {"o1"} |-> DefaultObject]
  /\ selectedObjectId = "none"
  /\ lastTick = <<>>
  /\ rafPending = FALSE
  /\ effectPlaying = FALSE
  /\ run = <<2>>
  /\ pantin = <<>>
  /\ dom = <<>>
  /\ last = "init"

\* the Frame input, a lane click or a keyframe click
ScrubTo == \E f \in 0..duration : scrubTo(f)

\* Space key: t.isPlaying ? t.pause() : t.play()
TogglePlay ==
  /\ isPlaying' = ~isPlaying
  /\ last' = "togglePlay"
  /\ UNCHANGED <<run, pantin, dom>>
  /\ UNCHANGED <<fps, duration, currentFrame, loop, tracks, autoKeyframe, overrides>>
  /\ UNCHANGED <<editorVars, playbackVars>>

\* the Auto-KF checkbox: setPartial({ autoKeyframe: checked })
SetAutoKeyframe ==
  /\ autoKeyframe' = ~autoKeyframe
  /\ last' = "setAutoKeyframe"
  /\ UNCHANGED <<run, pantin, dom>>
  /\ UNCHANGED <<fps, duration, currentFrame, isPlaying, loop, tracks, overrides>>
  /\ UNCHANGED <<editorVars, playbackVars>>

\* editor store selectObject(id)
SelectObject ==
  \E id \in DOMAIN svgObjects \cup {"none"} :
    /\ selectedObjectId' = id
    /\ last' = "selectObject"
    /\ UNCHANGED <<run, pantin, dom>>
    /\ UNCHANGED <<timelineVars, overrides, svgObjects, playbackVars>>

\* the gate without the playback test
captureGateNoPlaying(autoKf, playing) == autoKf

\* if (!s.autoKeyframe || s.isPlaying) return;  (the recorder runs when this holds)
captureGate(autoKf, playing) == autoKf /\ ~playing

\* the tracks a capture of (object, patch) leaves
capturedTracks(object, patch) ==
  IF captureGate(autoKeyframe, isPlaying)
  THEN addKeyframesFromUpdate(currentFrame, tracks, object, patch)
  ELSE tracks

\* store.captureFromUpdate(object, patch)
CaptureFromUpdate ==
  \E id \in DOMAIN svgObjects, patch \in PatchSet :
    /\ tracks' = capturedTracks(svgObjects[id], patch)
    /\ Len(tracks') <= MaxTracks
    /\ overrides' = computeOverrides(currentFrame, tracks')
    /\ last' = "captureFromUpdate"
    /\ UNCHANGED <<run, pantin, dom>>
    /\ UNCHANGED <<fps, duration, currentFrame, isPlaying, loop, autoKeyframe>>
    /\ UNCHANGED <<editorVars, playbackVars>>

\* { ...obj, ...newProps }
shallowMerge(obj, newProps) == newProps @@ obj

\* App.handleUpdateObject(id, newProps): capture, then the object update (the
\* App's selectedObject mirror of the object is not part of this state: the
\* selection is kept by id)
HandleUpdateObject ==
  \E id \in DOMAIN svgObjects, newProps \in PatchSet :
    /\ tracks' = capturedTracks(svgObjects[id], newProps)
    /\ Len(tracks') <= MaxTracks
    /\ overrides' = computeOverrides(currentFrame, tracks')
    /\ svgObjects' = [svgObjects EXCEPT ![id] = shallowMerge(@, newProps)]
    /\ last' = "handleUpdateObject"
    /\ UNCHANGED <<run, pantin, dom>>
    /\ UNCHANGED <<fps, duration, currentFrame, isPlaying, loop, autoKeyframe>>
    /\ UNCHANGED <<selectedObjectId, playbackVars>>

\* store.deleteKeyframe(trackId, frame): double click on a keyframe marker
deleteKeyframe(trks, trackId, frame) ==
  [i \in 1..Len(trks) |->
     IF trks[i].id = trackId
     THEN [trks[i] EXCEPT !.keyframes = removeAtSame(@, frame)]
     ELSE trks[i]]

DeleteKeyframe ==
  \E i \in 1..Len(tracks) : \E j \in 1..Len(tracks[i].keyframes) :
    /\ tracks' = deleteKeyframe(tracks, tracks[i].id, tracks[i].keyframes[j].frame)
    /\ overrides' = computeOverrides(currentFrame, tracks')
    /\ last' = "deleteKeyframe"
    /\ UNCHANGED <<run, pantin, dom>>
    /\ UNCHANGED <<fps, duration, currentFrame, isPlaying, loop, autoKeyframe>>
    /\ UNCHANGED <<editorVars, playbackVars>>

\* the value the Add-keyframe button reads from the selected object
manualValue(object, property, part) ==
  CASE property = "position" -> [x |-> object.x, y |-> object.y]
    [] property = "rotation" -> [n |-> object.rotation]
    [] property = "visibility" -> [b |-> ~object.hidden]
    [] property = "articulation" ->
         [n |-> IF part \in DOMAIN object.articulation THEN object.articulation[part] ELSE 0]

\* Timeline.addKeyframe(property, part): the tracks handed to setTracks
addKeyframe(trks, object, at, property, part) ==
  LET existing == findTrack(trks, object.id, property, part)
      nextTracks == IF existing # 0 THEN trks
                    ELSE Append(trks, [id |-> uid(trks), objectId |-> object.id,
                                       property |-> property, part |-> part,
                                       keyframes |-> <<>>])
      i == IF existing # 0 THEN existing ELSE Len(nextTracks)
      kf == [frame |-> at, value |-> manualValue(object, property, part),
             interpolation |-> IF property = "visibility" THEN "step" ELSE "linear"] IN
  [nextTracks EXCEPT ![i].keyframes = sortByFrame(Append(removeAtSame(@, at), kf))]

\* the Add keyframe button (enabled when an object is selected).  On a track
\* the store already holds, the handler assigns to a field of a store object:
\* the assignment goes through, or raises when the store froze the object and
\* the handler ends before setTracks.
AddKeyframe ==
  /\ selectedObjectId \in DOMAIN svgObjects
  /\ \E kind \in TrackKinds :
       LET object == svgObjects[selectedObjectId]
           existing == findTrack(tracks, object.id, kind.property, kind.part) IN
       \/ tracks' = addKeyframe(tracks, object, currentFrame, kind.property, kind.part)
       \/ existing # 0 /\ tracks' = tracks
  /\ Len(tracks') <= MaxTracks
  /\ overrides' = computeOverrides(currentFrame, tracks')
  /\ last' = "addKeyframe"
  /\ UNCHANGED <<run, pantin, dom>>
  /\ UNCHANGED <<fps, duration, currentFrame, isPlaying, loop, autoKeyframe>>
  /\ UNCHANGED <<editorVars, playbackVars>>

\* store.clear(): the Purger button (confirmed)
Clear ==
  /\ isPlaying' = FALSE
  /\ currentFrame' = 0
  /\ tracks' = <<>>
  /\ overrides' = computeOverrides(currentFrame', tracks')
  /\ last' = "clear"
  /\ UNCHANGED <<run, pantin, dom>>
  /\ UNCHANGED <<fps, duration, loop, autoKeyframe>>
  /\ UNCHANGED <<editorVars, playbackVars>>

Next ==
  \/ ScrubTo
  \/ TogglePlay
  \/ SetAutoKeyframe
  \/ SelectObject
  \/ CaptureFromUpdate
  \/ HandleUpdateObject
  \/ AddKeyframe
  \/ DeleteKeyframe
  \/ Clear

Spec == Init /\ [][Next]_vars


(* --------------------- playback specification (PlaySpec) --------------- *)
(* The timeline store under the toolbar, the keyboard and the Timeline     *)
(* component's requestAnimationFrame loop, on a timeline without tracks.   *)
(* lastTick is <<>> (lastTickRef.current = 0) or <<the time elapsed since  *)
(* lastTickRef.current>>; rafPending says a tick callback is scheduled;      *)
(* effectPlaying is the isPlaying value the playback effect last ran with. *)
(* The number inputs are modelled for integer entries.                     *)

\* Shift+Arrow steps this many frames
ShiftStep == 10

PlayInit ==
  /\ fps = MaxFps
  /\ duration = MaxDuration
  /\ currentFrame = 0
  /\ isPlaying = FALSE
  /\ loop = TRUE
  /\ tracks = <<>>
  /\ autoKeyframe = TRUE
  /\ overrides = computeOverrides(currentFrame, tracks)
  /\ svgObjects = [o \in {"o1"} |-> DefaultObject]
  /\ selectedObjectId = "none"
  /\ lastTick = <<>>
  /\ rafPending = FALSE
  /\ effectPlaying = FALSE
  /\ run = <<2>>
  /\ pantin = <<>>
  /\ dom = <<>>
  /\ last = "init"

\* what no playback action writes
PlayFrame == UNCHANGED <<tracks, autoKeyframe, overrides, editorVars>>

\* the Frame input: scrubTo(Number(value)), any integer entry
FrameInput == \E f \in -1..(MaxDuration + 1) : scrubTo(f)

\* ArrowRight / ArrowLeft, with Shift for ShiftStep: scrubTo(currentFrame +- step)
StepFrame ==
  \E step \in {1, ShiftStep}, sign \in {-1, 1} : scrubTo(currentFrame + sign * step)

\* the Play button: if (!isPlaying) play()
Play ==
  /\ ~isPlaying
  /\ isPlaying' = TRUE
  /\ last' = "play"
  /\ UNCHANGED <<run, pantin, dom>>
  /\ UNCHANGED <<fps, duration, currentFrame, loop, playbackVars>>
  /\ PlayFrame

\* the Pause button: pause()
Pause ==
  /\ isPlaying
  /\ isPlaying' = FALSE
  /\ last' = "pause"
  /\ UNCHANGED <<run, pantin, dom>>
  /\ UNCHANGED <<fps, duration, currentFrame, loop, playbackVars>>
  /\ PlayFrame

\* the Stop button: stop()
Stop ==
  /\ isPlaying' = FALSE
  /\ currentFrame' = 0
  /\ last' = "stop"
  /\ UNCHANGED <<run, pantin, dom>>
  /\ UNCHANGED <<fps, duration, loop, playbackVars>>
  /\ PlayFrame

\* the Purger button, confirmed: clear()
PlayClear ==
  /\ isPlaying' = FALSE
  /\ currentFrame' = 0
  /\ tracks' = <<>>
  /\ last' = "clear"
  /\ UNCHANGED <<run, pantin, dom>>
  /\ UNCHANGED <<fps, duration, loop, playbackVars>>
  /\ UNCHANGED <<autoKeyframe, overrides, editorVars>>

\* Math.max(1, Math.min(max, v))
clampInput(v, max) == IF v < 1 THEN 1 ELSE IF v > max THEN max ELSE v

\* the FPS input: setPartial({ fps: clamp })
SetFps ==
  /\ \E v \in 0..(MaxFps + 1) : fps' = clampInput(v, MaxFps)
  /\ last' = "setFps"
  /\ UNCHANGED <<run, pantin, dom>>
  /\ UNCHANGED <<duration, currentFrame, isPlaying, loop, playbackVars>>
  /\ PlayFrame

\* the Duree input: setPartial({ duration: clamp })
SetDuration ==
  /\ \E v \in 0..(MaxDuration + 1) : duration' = clampInput(v, MaxDuration)
  /\ last' = "setDuration"
  /\ UNCHANGED <<run, pantin, dom>>
  /\ UNCHANGED <<fps, currentFrame, isPlaying, loop, playbackVars>>
  /\ PlayFrame

\* the Loop checkbox: setPartial({ loop: checked })
SetLoop ==
  /\ loop' = ~loop
  /\ last' = "setLoop"
  /\ UNCHANGED <<run, pantin, dom>>
  /\ UNCHANGED <<fps, duration, currentFrame, isPlaying, playbackVars>>
  /\ PlayFrame

\* the effect on [isPlaying]: schedule the first tick, or cancel the scheduled
\* tick and reset lastTickRef
PlayingEffect ==
  /\ effectPlaying # isPlaying
  /\ effectPlaying' = isPlaying
  /\ rafPending' = isPlaying
  /\ lastTick' = IF isPlaying THEN lastTick ELSE <<>>
  /\ last' = "effect"
  /\ UNCHANGED <<run, pantin, dom>>
  /\ UNCHANGED <<fps, duration, currentFrame, isPlaying, loop>>
  /\ PlayFrame

\* the measurement of the run after the clock advanced by one unit
runAfterElapse(r) ==
  IF r[1] # 1 THEN r
  ELSE IF r[2] < MaxRunTime THEN <<1, r[2] + 1, r[3], r[4]>> ELSE <<2>>

\* the measurement of the run after a tick that found the store playing at
\* frame cf and advanced n frames: the first tick of an armed run starts it
runAfterTick(r, playing, lt, cf, n) ==
  IF ~playing THEN r
  ELSE IF r[1] = 0 THEN (IF lt = <<>> THEN <<1, 0, 0, cf>> ELSE <<2>>)
  ELSE IF r[1] = 1 THEN <<1, r[2], r[3] + n, r[4]>>
  ELSE r

\* the clock advances by one unit while lastTickRef holds a timestamp
Elapse ==
  /\ lastTick # <<>>
  /\ lastTick[1] < MaxElapsed
  /\ lastTick' = <<lastTick[1] + 1>>
  /\ last' = "elapse"
  /\ run' = runAfterElapse(run)
  /\ UNCHANGED <<pantin, dom>>
  /\ UNCHANGED <<fps, duration, currentFrame, isPlaying, loop, rafPending, effectPlaying>>
  /\ PlayFrame

\* now - lastTickRef.current, after `if (!lastTickRef.current) lastTickRef.current = now`
deltaMs(lt) == IF lt = <<>> THEN 0 ELSE lt[1]

\* Math.floor(deltaMs / (1000 / fps))
framesToAdvance(lt, f) == (deltaMs(lt) * f) \div UnitsPerSecond

\* the looping branch clamping like the non-looping one
tickFrameClamp(cf, n, dur, lp) ==
  IF cf + n >= dur
  THEN IF lp THEN [currentFrame |-> dur, isPlaying |-> TRUE]
             ELSE [currentFrame |-> dur, isPlaying |-> FALSE]
  ELSE [currentFrame |-> cf + n, isPlaying |-> TRUE]

\* the non-looping branch clamping without stopping
tickFrameNoStop(cf, n, dur, lp) ==
  IF cf + n >= dur
  THEN IF lp THEN [currentFrame |-> (cf + n) % dur, isPlaying |-> TRUE]
             ELSE [currentFrame |-> dur, isPlaying |-> TRUE]
  ELSE [currentFrame |-> cf + n, isPlaying |-> TRUE]

\* the store write of a tick that advances n > 0 frames
tickFrame(cf, n, dur, lp) ==
  IF cf + n >= dur
  THEN IF lp THEN [currentFrame |-> (cf + n) % dur, isPlaying |-> TRUE]
             ELSE [currentFrame |-> dur, isPlaying |-> FALSE]
  ELSE [currentFrame |-> cf + n, isPlaying |-> TRUE]

\* the branch a tick takes
tickBranch(playing, cf, n, dur, lp) ==
  IF ~playing THEN "tickReturn"
  ELSE IF n <= 0 THEN "tickIdle"
  ELSE IF cf + n < dur THEN "tickAdvance"
  ELSE IF lp THEN "tickWrap" ELSE "tickEnd"

\* tick(now): the scheduled animation-frame callback
Tick ==
  /\ rafPending
  /\ last' = tickBranch(isPlaying, currentFrame, framesToAdvance(lastTick, fps), duration, loop)
  /\ run' = runAfterTick(run, isPlaying, lastTick, currentFrame, framesToAdvance(lastTick, fps))
  /\ UNCHANGED <<pantin, dom>>
  /\ IF ~isPlaying
     THEN /\ rafPending' = FALSE
          /\ UNCHANGED <<fps, duration, currentFrame, isPlaying, loop, lastTick, effectPlaying>>
     ELSE LET n == framesToAdvance(lastTick, fps) IN
          /\ rafPending' = TRUE
          /\ IF n > 0
             THEN /\ lastTick' = <<0>>
                  /\ currentFrame' = tickFrame(currentFrame, n, duration, loop).currentFrame
                  /\ isPlaying' = tickFrame(currentFrame, n, duration, loop).isPlaying
             ELSE /\ lastTick' = <<deltaMs(lastTick)>>
                  /\ UNCHANGED <<currentFrame, isPlaying>>
          /\ UNCHANGED <<fps, duration, loop, effectPlaying>>
  /\ PlayFrame

PlayNext ==
  \/ FrameInput
  \/ StepFrame
  \/ Play
  \/ Pause
  \/ Stop
  \/ PlayClear
  \/ SetFps
  \/ SetDuration
  \/ SetLoop
  \/ PlayingEffect
  \/ Elapse
  \/ Tick

PlaySpec == PlayInit /\ [][PlayNext]_vars

(* ------------------- uninterrupted playback (RunSpec) ------------------ *)
(* Play has just been pressed on an idle timeline with any settings the    *)
(* toolbar can leave (a playhead beyond the duration included); from then  *)
(* on only the playback effect, the clock and the animation-frame callback *)
(* act.  requestAnimationFrame calls a scheduled callback, React runs a    *)
(* pending effect, and the clock advances: weak fairness on each.          *)

RunInit ==
  /\ fps \in 1..MaxFps
  /\ duration \in 1..MaxDuration
  /\ currentFrame \in 0..MaxDuration
  /\ isPlaying = TRUE
  /\ loop \in BOOLEAN
  /\ tracks = <<>>
  /\ autoKeyframe = TRUE
  /\ overrides = computeOverrides(currentFrame, tracks)
  /\ svgObjects = [o \in {"o1"} |-> DefaultObject]
  /\ selectedObjectId = "none"
  /\ lastTick = <<>>
  /\ rafPending = FALSE
  /\ effectPlaying = FALSE
  /\ run = <<0>>
  /\ pantin = <<>>
  /\ dom = <<>>
  /\ last = "play"

RunNext ==
  \/ PlayingEffect
  \/ Elapse
  \/ Tick

RunSpec ==
  /\ RunInit
  /\ [][RunNext]_vars
  /\ WF_vars(PlayingEffect)
  /\ WF_vars(Elapse)
  /\ WF_vars(Tick)

(* ------------------- rotation controller (PantinSpec) ------------------ *)
(* One mounted puppet (Pantin): its refs (rotatingRef, activePartRef,      *)
(* baseAngleRef), the props of its current render (rotateMode,             *)
(* object.flipped, object.articulation), the listeners its pointerdown     *)
(* handler has left on window, and the callbacks the last event fired.     *)
(* A listener is the handlePointerMove / stopRotation pair of one render:  *)
(* it carries the flipped and articulation values that render closed over, *)
(* and `current` says it is the pair of the render now on screen           *)
(* (addEventListener ignores a pair that is already registered).  Angles   *)
(* are whole degrees.  pressed is the part the last event resolved when it *)
(* was a pointerdown; emitted lists the articulation changes the last      *)
(* event emitted, each with its normalized angle before the flip mapping,  *)
(* the angle the object held for its part before the event, and whether    *)
(* the event before was a press that started a drag;                       *)
(* started and ended count its onInteractionStart / onInteractionEnd.      *)

\* most listener pairs the controller specification lets window hold
MaxListeners == 2

\* parts that carry stored angles, and the elements flagged data-interactive
PantinParts == {"tete", "main_droite", "main_gauche"}
InteractiveParts == PantinParts \cup {"torse"}

\* interactive parts with a parsable data-pivot (on themselves or a descendant)
PivotParts == PantinParts

\* elements a pointer presses: the svg background, an element inside the
\* head group, the right hand, the torso
PressTargets == {"fond", "dans_tete", "main_droite", "torse"}

\* pointer angles about a pivot: Math.atan2(...) * 180 / Math.PI, in (-180, 180]
PointerAngles == {0, 180}

\* MIRROR_MAP (the same table in Pantin and InspectorPanel)
MIRROR_MAP ==
     ("haut_bras_droite" :> "haut_bras_gauche") @@ ("haut_bras_gauche" :> "haut_bras_droite")
  @@ ("avant_bras_droite" :> "avant_bras_gauche") @@ ("avant_bras_gauche" :> "avant_bras_droite")
  @@ ("main_droite" :> "main_gauche") @@ ("main_gauche" :> "main_droite")
  @@ ("cuisse_droite" :> "cuisse_gauche") @@ ("cuisse_gauche" :> "cuisse_droite")
  @@ ("tibia_droite" :> "tibia_gauche") @@ ("tibia_gauche" :> "tibia_droite")
  @@ ("pied_droite" :> "pied_gauche") @@ ("pied_gauche" :> "pied_droite")

\* getPartFromEvent: the nearest ancestor-or-self flagged interactive with an id
getPartFromEvent(target) ==
  IF target \in InteractiveParts THEN target
  ELSE IF target = "dans_tete" THEN "tete"
  ELSE "none"

\* findPivotForPart(part) # null
findPivotForPart(part) == part \in PivotParts

\* (isFlipped && MIRROR_MAP[part]) ? MIRROR_MAP[part] : part
controlledPart(part, isFlipped) ==
  IF isFlipped /\ part \in DOMAIN MIRROR_MAP THEN MIRROR_MAP[part] ELSE part

\* the negation of the part's own angle, without the mirror table
currentAngleNoMirror(articulation, part, isFlipped) ==
  LET stored == IF part \in DOMAIN articulation THEN articulation[part] ELSE 0 IN
  IF isFlipped THEN -stored ELSE stored

\* InspectorPanel: selectedObject.articulation?.[controlled] || 0, negated when flipped
inspectorAngle(articulation, part, isFlipped) ==
  LET controlled == controlledPart(part, isFlipped)
      current == IF controlled \in DOMAIN articulation THEN articulation[controlled] ELSE 0 IN
  IF isFlipped THEN -current ELSE current

\* onPointerDown: (articulation && articulation[ctrl]) || 0, negated when flipped
currentAngle(articulation, part, isFlipped) ==
  LET ctrl == controlledPart(part, isFlipped)
      stored == IF ctrl \in DOMAIN articulation THEN articulation[ctrl] ELSE 0 IN
  IF isFlipped THEN -stored ELSE stored

\* JavaScript a % b for b > 0: the remainder takes the sign of a
jsRem(a, b) == IF a >= 0 THEN a % b ELSE -((-a) % b)

\* a normalization into (-180, 180]
normalizeAngleUpper(newAngle) ==
  LET r == jsRem(jsRem(newAngle + 180, 360) + 360, 360) IN
  IF r = 0 THEN 180 ELSE r - 180

\* ((newAngle + 180) % 360 + 360) % 360 - 180
normalizeAngle(newAngle) == jsRem(jsRem(newAngle + 180, 360) + 360, 360) - 180

PantinIdle ==
  [rotating |-> FALSE, activePart |-> "none", baseAngle |-> 0,
   rotateMode |-> FALSE, flipped |-> FALSE,
   articulation |-> [p \in PantinParts |-> 0],
   listeners |-> <<>>, pressed |-> "none", emitted |-> <<>>, started |-> 0, ended |-> 0]

PantinInit ==
  /\ fps = 24
  /\ duration = EditDuration
  /\ currentFrame = 0
  /\ isPlaying = FALSE
  /\ loop = TRUE
  /\ tracks = <<>>
  /\ autoKeyframe = FALSE
  /\ overrides = computeOverrides(currentFrame, tracks)
  /\ svgObjects = [o \in {"o1"} |-> DefaultObject]
  /\ selectedObjectId = "none"
  /\ lastTick = <<>>
  /\ rafPending = FALSE
  /\ effectPlaying = FALSE
  /\ run = <<2>>
  /\ pantin = PantinIdle
  /\ dom = <<>>
  /\ last = "init"

\* what no controller action writes
PantinFrame == UNCHANGED <<timelineVars, overrides, editorVars, playbackVars, run, dom>>

\* a new render: no registered pair is the pair of the render on screen
rerendered(listeners) == [i \in 1..Len(listeners) |-> [listeners[i] EXCEPT !.current = FALSE]]

\* the record with the callbacks of the previous event forgotten
quiet(c) == [c EXCEPT !.pressed = "none", !.emitted = <<>>, !.started = 0, !.ended = 0]

\* onPointerDown's guards without the pivot test
pressAcceptedNoPivot(rotateMode, button, part) ==
  button = 0 /\ rotateMode /\ part # "none"

\* onPointerDown's guards: left button, rotate mode, a part, a pivot
pressAccepted(rotateMode, button, part) ==
  button = 0 /\ rotateMode /\ part # "none" /\ findPivotForPart(part)

\* window.addEventListener of the current render's pair
withCurrentListener(c) ==
  IF \E i \in 1..Len(c.listeners) : c.listeners[i].current THEN c.listeners
  ELSE Append(c.listeners,
              [flipped |-> c.flipped, articulation |-> c.articulation, current |-> TRUE])

\* the controller after onPointerDown(e): e.target, e.button, the pointer's
\* angle about the pivot.  onInteractionStart sets the canvas's
\* isObjectInteracting, which re-renders the puppet when it was not set.
onPointerDown(c0, target, button, startAng) ==
  LET c == quiet(c0)
      part == getPartFromEvent(target) IN
  IF ~pressAccepted(c.rotateMode, button, part) THEN [c EXCEPT !.pressed = part]
  ELSE [c EXCEPT !.pressed = part,
                 !.rotating = TRUE,
                 !.activePart = part,
                 !.baseAngle = currentAngle(c.articulation, part, c.flipped) - startAng,
                 !.started = 1,
                 !.listeners = IF c.rotating THEN withCurrentListener(c)
                               ELSE rerendered(withCurrentListener(c))]

PointerDown ==
  /\ \E target \in PressTargets, button \in {0, 2}, startAng \in PointerAngles :
       pantin' = onPointerDown(pantin, target, button, startAng)
  /\ Len(pantin'.listeners) <= MaxListeners
  /\ last' = "pointerDown"
  /\ PantinFrame

\* what one registered handlePointerMove emits for a pointer at angle ang:
\* <<>> or one articulation change
handlePointerMove(c, listener, ang) ==
  IF ~c.rotating \/ c.activePart = "none" \/ ~findPivotForPart(c.activePart) THEN <<>>
  ELSE LET final == normalizeAngle(ang + c.baseAngle) IN
       <<[part |-> controlledPart(c.activePart, listener.flipped),
          angle |-> IF listener.flipped THEN -final ELSE final,
          final |-> final,
          newAngle |-> ang + c.baseAngle,
          isFlipped |-> listener.flipped,
          from |-> listener.articulation]>>

RECURSIVE movesOf(_, _, _)
\* the emissions of the registered handlers, in registration order, from pair i
movesOf(c, ang, i) ==
  IF i > Len(c.listeners) THEN <<>>
  ELSE handlePointerMove(c, c.listeners[i], ang) \o movesOf(c, ang, i + 1)

\* the canvas's onArticulationChange of the emitting render:
\* { ...obj.articulation, [partName]: angle }
articulationAfter(emission) == (emission.part :> emission.angle) @@ emission.from

\* the controller after a pointermove on window; the last update of the
\* object wins and re-renders the puppet
onPointerMove(c0, ang) ==
  LET c == quiet(c0)
      moves == movesOf(c, ang, 1) IN
  IF moves = <<>> THEN c
  ELSE [c EXCEPT !.emitted = [i \in 1..Len(moves) |->
                                [part |-> moves[i].part, angle |-> moves[i].angle,
                                 final |-> moves[i].final, newAngle |-> moves[i].newAngle,
                                 isFlipped |-> moves[i].isFlipped,
                                 stored |-> IF moves[i].part \in DOMAIN c.articulation
                                            THEN c.articulation[moves[i].part] ELSE 0,
                                 afterPress |-> (c0.started = 1)]],
                 !.articulation = articulationAfter(moves[Len(moves)]),
                 !.listeners = rerendered(c.listeners)]

PointerMove ==
  /\ \E ang \in PointerAngles : pantin' = onPointerMove(pantin, ang)
  /\ last' = "pointerMove"
  /\ PantinFrame

\* stopRotation without the reset of activePartRef
stopRotationKeepsPart(c0) ==
  LET c == quiet(c0) IN
  IF ~c.rotating \/ c.listeners = <<>> THEN c
  ELSE [c EXCEPT !.rotating = FALSE,
                 !.ended = 1,
                 !.listeners = rerendered(Tail(c.listeners))]

\* the controller after pointerup / pointercancel on window: the first
\* registered stopRotation finds rotatingRef set, resets the refs, fires
\* onInteractionEnd and removes its own pair; the later ones return at once
stopRotation(c0) ==
  LET c == quiet(c0) IN
  IF ~c.rotating \/ c.listeners = <<>> THEN c
  ELSE [c EXCEPT !.rotating = FALSE,
                 !.activePart = "none",
                 !.ended = 1,
                 !.listeners = rerendered(Tail(c.listeners))]

PointerUp ==
  /\ pantin' = stopRotation(pantin)
  /\ last' = "pointerUp"
  /\ PantinFrame

PointerCancel ==
  /\ pantin' = stopRotation(pantin)
  /\ last' = "pointerCancel"
  /\ PantinFrame

\* the canvas's interaction mode changes: the puppet renders with the new
\* rotateMode and its effect re-attaches onPointerDown
ToggleRotateMode ==
  /\ pantin' = [quiet(pantin) EXCEPT !.rotateMode = ~pantin.rotateMode,
                                     !.listeners = rerendered(pantin.listeners)]
  /\ last' = "toggleRotateMode"
  /\ PantinFrame

\* the object's flipped flag changes
ToggleFlip ==
  /\ pantin' = [quiet(pantin) EXCEPT !.flipped = ~pantin.flipped,
                                     !.listeners = rerendered(pantin.listeners)]
  /\ last' = "toggleFlip"
  /\ PantinFrame

\* the canvas re-renders the puppet for any other reason
Rerender ==
  /\ pantin' = [quiet(pantin) EXCEPT !.listeners = rerendered(pantin.listeners)]
  /\ last' = "rerender"
  /\ PantinFrame

PantinNext ==
  \/ PointerDown
  \/ PointerMove
  \/ PointerUp
  \/ PointerCancel
  \/ ToggleRotateMode
  \/ ToggleFlip
  \/ Rerender

PantinSpec == PantinInit /\ [][PantinNext]_vars

(* --------------------------- attachment engine -------------------------- *)
\* The canvas's attach and detach over the scene objects.  A matrix is
\* <<a, b, c, d, e, f>> (DOMMatrix), <<>> when the screen gives none; an
\* optional field (rotation, attachmentInfo) is <<>> when undefined and
\* <<value>> otherwise.

\* limbs the attach menu offers (a part of ARTICULABLE_PARTS) and the element
\* ids of a puppet's svg: the puppets of the scene have no left foot
LimbIds == {"main_droite", "pied_gauche"}
PuppetElementIds == {"tete", "main_droite"}

\* screen transforms: a quarter turn and a horizontal flip, each with a translation
ScreenMatrices == {<<0, 1, -1, 0, 3, 0>>, <<-1, 0, 0, 1, 4, 2>>}
MaybeMatrices == ScreenMatrices \cup {<<>>}

\* x / det for a determinant that divides x
exactDiv(x, det) == IF det > 0 THEN x \div det ELSE (-x) \div (-det)

\* DOMMatrix.multiply: m * n
multiply(m, n) ==
  <<m[1] * n[1] + m[3] * n[2],
    m[2] * n[1] + m[4] * n[2],
    m[1] * n[3] + m[3] * n[4],
    m[2] * n[3] + m[4] * n[4],
    m[1] * n[5] + m[3] * n[6] + m[5],
    m[2] * n[5] + m[4] * n[6] + m[6]>>

\* DOMMatrix.inverse
inverse(m) ==
  LET det == m[1] * m[4] - m[2] * m[3] IN
  <<exactDiv(m[4], det), exactDiv(-m[2], det),
    exactDiv(-m[3], det), exactDiv(m[1], det),
    exactDiv(m[3] * m[6] - m[4] * m[5], det),
    exactDiv(m[2] * m[5] - m[1] * m[6], det)>>

\* childMatrix * inverse(limbMatrix)
relativeMatrixReversed(limbMatrix, childMatrix) == multiply(childMatrix, inverse(limbMatrix))

\* limbMatrix.inverse().multiply(childMatrix)
relativeMatrix(limbMatrix, childMatrix) == multiply(inverse(limbMatrix), childMatrix)

\* `matrix(${a}, ${b}, ${c}, ${d}, ${e}, ${f})`
transformString(m) == [matrix |-> m]

SceneObject(id, category, x, y) ==
  [id |-> id, category |-> category, x |-> x, y |-> y, width |-> 2, height |-> 4,
   rotation |-> <<>>, zIndex |-> 0, hidden |-> FALSE,
   articulation |-> [p \in {} |-> 0], attachmentInfo |-> <<>>]

SceneInit ==
  /\ fps = 24
  /\ duration = EditDuration
  /\ currentFrame = 0
  /\ isPlaying = FALSE
  /\ loop = TRUE
  /\ tracks = <<>>
  /\ autoKeyframe = FALSE
  /\ overrides = computeOverrides(currentFrame, tracks)
  /\ svgObjects = ("objet" :> SceneObject("objet", "objets", 3, 2))
                  @@ ("pantin" :> SceneObject("pantin", "pantins", 1, 1))
                  @@ ("lampe" :> SceneObject("lampe", "objets", 5, 1))
  /\ selectedObjectId = "none"
  /\ lastTick = <<>>
  /\ rafPending = FALSE
  /\ effectPlaying = FALSE
  /\ run = <<2>>
  /\ pantin = <<>>
  /\ dom = <<>>
  /\ last = "init"

\* what no scene action writes
SceneFrame == UNCHANGED <<timelineVars, overrides, selectedObjectId, playbackVars, run, pantin>>

\* the canvas's render filter without the test of attachmentInfo
freeStandingAll(objs) == {id \in DOMAIN objs : ~objs[id].hidden}

\* the objects the canvas renders as free-standing:
\* svgObjects.filter(obj => !obj.attachmentInfo && !obj.hidden)
freeStanding(objs) == {id \in DOMAIN objs : objs[id].attachmentInfo = <<>> /\ ~objs[id].hidden}

\* Pantin attachedChildren[limbId] of a parent: the objects attached to it that
\* are not hidden
attachedChildren(objs, parentId, limbId) ==
  {id \in DOMAIN objs :
     /\ objs[id].attachmentInfo # <<>>
     /\ objs[id].attachmentInfo[1].parentId = parentId
     /\ objs[id].attachmentInfo[1].limbId = limbId
     /\ ~objs[id].hidden}

\* the limbs of the puppets on the canvas under which SvgPart renders an object
renderedUnder(objs, id) ==
  {pl \in (DOMAIN objs) \X PuppetElementIds :
     /\ pl[1] \in freeStanding(objs)
     /\ objs[pl[1]].category = "pantins"
     /\ id \in attachedChildren(objs, pl[1], pl[2])}

\* a wrapper for every object that is not hidden, attached or not
objectWrapperRefsAll(objs, id) == id \in freeStandingAll(objs)

\* objectWrapperRefs.current[id]: the wrapper of a free-standing object
objectWrapperRefs(objs, id) == id \in freeStanding(objs)

\* an svg for every puppet of the scene, rendered on the canvas or not
pantinRefsAll(objs, id) == objs[id].category = "pantins"

\* pantinRefs.current[id]: the svg of a free-standing puppet
pantinRefs(objs, id) == id \in freeStanding(objs) /\ objs[id].category = "pantins"

\* attachmentRefs.current[id]: the <g> of an object rendered under a limb
attachmentRefs(objs, id) == renderedUnder(objs, id) # {}

\* App.handleUpdateObject: { ...obj, ...newProps } on the object of that id
handleUpdateObject(objs, id, newProps) == [objs EXCEPT ![id] = shallowMerge(@, newProps)]

\* the step at which calculateAndSetAttachment returns: "elements", "childSvg",
\* "limb", "ctm", or "done" when it updates the object
attachStage(objs, childId, parentId, limbId, childSvg, childMatrix, limbMatrix) ==
  IF ~objectWrapperRefs(objs, childId) \/ ~pantinRefs(objs, parentId) THEN "elements"
  ELSE IF ~childSvg THEN "childSvg"
  ELSE IF limbId \notin PuppetElementIds THEN "limb"
  ELSE IF childMatrix = <<>> \/ limbMatrix = <<>> THEN "ctm"
  ELSE "done"

\* the patch calculateAndSetAttachment passes to onUpdateObject
attachPatch(parentId, limbId, childMatrix, limbMatrix) ==
  ("attachmentInfo" :> <<[parentId |-> parentId, limbId |-> limbId,
                          transform |-> transformString(relativeMatrix(limbMatrix, childMatrix))]>>)
  @@ ("x" :> 0) @@ ("y" :> 0)

\* calculateAndSetAttachment(childId, parentId, limbId): the scene after it
calculateAndSetAttachment(objs, childId, parentId, limbId, childSvg, childMatrix, limbMatrix) ==
  IF attachStage(objs, childId, parentId, limbId, childSvg, childMatrix, limbMatrix) = "done"
  THEN handleUpdateObject(objs, childId, attachPatch(parentId, limbId, childMatrix, limbMatrix))
  ELSE objs

\* the context menu's attach: the target object, another puppet, a limb; the
\* record dom keeps what the handler read, up to the step at which it returned
\* (what it did not read is drawn as absent)
Attach ==
  \E childId \in DOMAIN svgObjects, limbId \in LimbIds :
    \E parentId \in {id \in DOMAIN svgObjects : svgObjects[id].category = "pantins"} \ {childId} :
      LET mounted == objectWrapperRefs(svgObjects, childId) /\ pantinRefs(svgObjects, parentId) IN
      \E childSvg \in IF mounted THEN BOOLEAN ELSE {FALSE} :
        LET reads == mounted /\ childSvg /\ limbId \in PuppetElementIds IN
        \E childMatrix \in IF reads THEN MaybeMatrices ELSE {<<>>},
           limbMatrix \in IF reads THEN MaybeMatrices ELSE {<<>>} :
          /\ svgObjects' = calculateAndSetAttachment(svgObjects, childId, parentId, limbId,
                                                     childSvg, childMatrix, limbMatrix)
          /\ dom' = [op |-> "attach", childId |-> childId, parentId |-> parentId,
                     limbId |-> limbId,
                     stage |-> attachStage(svgObjects, childId, parentId, limbId,
                                           childSvg, childMatrix, limbMatrix),
                     childMatrix |-> childMatrix, limbMatrix |-> limbMatrix]
          /\ last' = "attach"
          /\ SceneFrame

\* the bounding box of the attached element on screen, the container's corner,
\* the viewport's pan and zoom (null until the saved view is loaded)
ScreenRects == {[left |-> 7, top |-> 3, width |-> 3, height |-> 2]}
ContainerRect == [left |-> 1, top |-> 0]
TransformStates == {<<>>, <<[positionX |-> 1, positionY |-> 0, scale |-> 2]>>}

\* Math.atan2(b, a) * 180 / Math.PI for a vector along an axis
atan2Deg(b, a) ==
  IF b = 0 THEN (IF a >= 0 THEN 0 ELSE 180)
  ELSE IF b > 0 THEN 90 ELSE -90

\* centerCanvas - size / 2, rounded: the top-left corner that keeps the centre
\* of the box (start, extent) on screen
cornerOf(start, extent, containerStart, position, scale, size) ==
  MathRound([num |-> 2 * start + extent - 2 * containerStart - 2 * position - size * scale,
             den |-> 2 * scale])

\* newRotation: undefined without a world matrix
rotationOf(worldMatrix) ==
  IF worldMatrix = <<>> THEN <<>>
  ELSE <<normalizeAngle(atan2Deg(worldMatrix[2], worldMatrix[1]))>>

\* the step at which calculateAndDetachObject returns: "elements", "container",
\* or "done" when it updates the object
detachStage(objs, childId, transformState, container) ==
  IF ~attachmentRefs(objs, childId) \/ childId \notin DOMAIN objs \/ transformState = <<>>
  THEN "elements"
  ELSE IF ~container THEN "container"
  ELSE "done"

\* the patch calculateAndDetachObject passes to onUpdateObject
detachPatch(childObject, transformState, rect, worldMatrix) ==
  LET ts == transformState[1] IN
  ("attachmentInfo" :> <<>>)
  @@ ("x" :> cornerOf(rect.left, rect.width, ContainerRect.left, ts.positionX, ts.scale,
                      childObject.width))
  @@ ("y" :> cornerOf(rect.top, rect.height, ContainerRect.top, ts.positionY, ts.scale,
                      childObject.height))
  @@ ("rotation" :> rotationOf(worldMatrix))

\* calculateAndDetachObject(childId): the scene after it
calculateAndDetachObject(objs, childId, transformState, container, rect, worldMatrix) ==
  IF detachStage(objs, childId, transformState, container) = "done"
  THEN handleUpdateObject(objs, childId,
                          detachPatch(objs[childId], transformState, rect, worldMatrix))
  ELSE objs

\* a detach request for an object of the scene (the context menu and the
\* inspector offer it for an object with attachmentInfo; App.handleDetachObject
\* passes any id on)
Detach ==
  \E childId \in DOMAIN svgObjects :
    LET attachedElement == attachmentRefs(svgObjects, childId) IN
    \E transformState \in IF attachedElement THEN TransformStates ELSE {<<>>} :
      \E container \in IF attachedElement /\ transformState # <<>> THEN BOOLEAN ELSE {FALSE} :
        LET reads == attachedElement /\ transformState # <<>> /\ container IN
        \E rect \in ScreenRects, worldMatrix \in IF reads THEN MaybeMatrices ELSE {<<>>} :
          /\ svgObjects' = calculateAndDetachObject(svgObjects, childId, transformState,
                                                    container, rect, worldMatrix)
          /\ dom' = [op |-> "detach", childId |-> childId,
                     stage |-> detachStage(svgObjects, childId, transformState, container),
                     attachedElement |-> attachedElement,
                     transformState |-> transformState,
                     container |-> container,
                     worldMatrix |-> worldMatrix]
          /\ last' = "detach"
          /\ SceneFrame

\* the context menu's toggleHidden
ToggleHidden ==
  \E id \in DOMAIN svgObjects :
    /\ svgObjects' = handleUpdateObject(svgObjects, id, ("hidden" :> ~svgObjects[id].hidden))
    /\ last' = "toggleHidden"
    /\ UNCHANGED dom
    /\ SceneFrame

\* a delete that also removes the objects attached to the deleted one
handleDeleteObjectCascade(objs, id) ==
  [o \in {c \in DOMAIN objs \ {id} :
            ~(objs[c].attachmentInfo # <<>> /\ objs[c].attachmentInfo[1].parentId = id)}
     |-> objs[o]]

\* handleDeleteObject: prev.filter(obj => obj.id !== id)
handleDeleteObject(objs, id) == [o \in DOMAIN objs \ {id} |-> objs[o]]

\* the context menu's delete
DeleteObject ==
  \E id \in DOMAIN svgObjects :
    /\ svgObjects' = handleDeleteObject(svgObjects, id)
    /\ last' = "deleteObject"
    /\ UNCHANGED dom
    /\ SceneFrame

SceneNext ==
  \/ Attach
  \/ Detach
  \/ ToggleHidden
  \/ DeleteObject

SceneSpec == SceneInit /\ [][SceneNext]_vars

(* ------------------------ attachment on the screen ---------------------- *)
\* Attach and detach with the readings the browser gives for the scene as it
\* is laid out: the viewport (container corner, pan, zoom 1), the object's
\* wrapper at (x, y) with the object's rotation about the centre of its box,
\* the puppet's limb rotated about its pivot; the bounding rectangle of an
\* attached <g> is that of what its content draws.

\* the view of the screen specification: pan (1, 0), zoom 1
ScreenTransformState == <<[positionX |-> 1, positionY |-> 0, scale |-> 1]>>

\* the pivot of the limb in the puppet's box
LimbPivot == [x |-> 1, y |-> 1]

\* what an object's content draws, in the coordinates of its box (width 4,
\* height 8): the whole box, or its top quarter
ContentBoxes == {[left |-> 0, top |-> 0, width |-> 4, height |-> 8],
                 [left |-> 0, top |-> 0, width |-> 4, height |-> 2]}

\* angles of the model: quarter turns
QuarterTurns == {0, 90}

\* the part of the canvas in which objects are attached
CanvasExtent == 4

\* cosine and sine of a multiple of 90 degrees
cosDeg(angle) == IF angle % 360 = 0 THEN 1 ELSE IF angle % 360 = 180 THEN -1 ELSE 0
sinDeg(angle) == IF angle % 360 = 90 THEN 1 ELSE IF angle % 360 = 270 THEN -1 ELSE 0

\* translate(x, y)
translation(x, y) == <<1, 0, 0, 1, x, y>>

\* rotate(angle) about the point (cx, cy)
rotationAbout(angle, cx, cy) ==
  LET c == cosDeg(angle)
      sn == sinDeg(angle) IN
  <<c, sn, -sn, c, cx - c * cx + sn * cy, cy - sn * cx - c * cy>>

\* the canvas on the screen: the container's corner and the pan (zoom 1)
viewportMatrix ==
  translation(ContainerRect.left + ScreenTransformState[1].positionX,
              ContainerRect.top + ScreenTransformState[1].positionY)

\* getScreenCTM of the svg of a free-standing object: the wrapper at (x, y),
\* the rotation of a non-puppet about the centre of its box
objectScreenCTM(obj) ==
  LET placed == multiply(viewportMatrix, translation(obj.x, obj.y)) IN
  IF obj.category # "pantins" /\ obj.rotation # <<>>
  THEN multiply(placed, rotationAbout(obj.rotation[1], obj.width \div 2, obj.height \div 2))
  ELSE placed

\* getScreenCTM of a limb of a puppet: SvgPart's rotate(angle) about the pivot
limbScreenCTM(parent, limbId) ==
  LET angle == IF limbId \in DOMAIN parent.articulation THEN parent.articulation[limbId] ELSE 0 IN
  multiply(multiply(viewportMatrix, translation(parent.x, parent.y)),
           rotationAbout(angle, LimbPivot.x, LimbPivot.y))

\* getScreenCTM of the <g> of an attached object: its transform under the limb
attachedScreenCTM(objs, id) ==
  LET info == objs[id].attachmentInfo[1] IN
  multiply(limbScreenCTM(objs[info.parentId], info.limbId), info.transform.matrix)

Min(S) == CHOOSE v \in S : \A w \in S : v <= w
Max(S) == CHOOSE v \in S : \A w \in S : v >= w

\* getBoundingClientRect of content drawing the box under the matrix m
boundingClientRect(m, box) ==
  LET xs == {m[1] * px + m[3] * py + m[5] :
               px \in {box.left, box.left + box.width}, py \in {box.top, box.top + box.height}}
      ys == {m[2] * px + m[4] * py + m[6] :
               px \in {box.left, box.left + box.width}, py \in {box.top, box.top + box.height}}
  IN [left |-> Min(xs), top |-> Min(ys), width |-> Max(xs) - Min(xs), height |-> Max(ys) - Min(ys)]

ScreenObject(id, category, x, y, draws) ==
  [SceneObject(id, category, x, y) EXCEPT !.width = 4, !.height = 8] @@ ("draws" :> draws)

ScreenInit ==
  /\ fps = 24
  /\ duration = EditDuration
  /\ currentFrame = 0
  /\ isPlaying = FALSE
  /\ loop = TRUE
  /\ tracks = <<>>
  /\ autoKeyframe = FALSE
  /\ overrides = computeOverrides(currentFrame, tracks)
  /\ \E draws \in ContentBoxes :
       svgObjects = ("objet" :> ScreenObject("objet", "objets", 3, 2, draws))
                    @@ ("pantin" :> ScreenObject("pantin", "pantins", 1, 1, draws))
  /\ selectedObjectId = "none"
  /\ lastTick = <<>>
  /\ rafPending = FALSE
  /\ effectPlaying = FALSE
  /\ run = <<2>>
  /\ pantin = <<>>
  /\ dom = <<>>
  /\ last = "init"

\* attach of a free-standing prop to the limb of the puppet on the canvas; dom
\* keeps the child as it was before
ScreenAttach ==
  \E childId \in {id \in freeStanding(svgObjects) :
                      /\ svgObjects[id].category # "pantins"
                      /\ svgObjects[id].x \in -CanvasExtent..CanvasExtent
                      /\ svgObjects[id].y \in -CanvasExtent..CanvasExtent},
     parentId \in {id \in freeStanding(svgObjects) : svgObjects[id].category = "pantins"} :
    LET limbId == "main_droite"
        childMatrix == objectScreenCTM(svgObjects[childId])
        limbMatrix == limbScreenCTM(svgObjects[parentId], limbId) IN
    /\ svgObjects' = calculateAndSetAttachment(svgObjects, childId, parentId, limbId,
                                               TRUE, childMatrix, limbMatrix)
    /\ dom' = [op |-> "attach", childId |-> childId, parentId |-> parentId, limbId |-> limbId,
               stage |-> attachStage(svgObjects, childId, parentId, limbId,
                                     TRUE, childMatrix, limbMatrix),
               childMatrix |-> childMatrix, limbMatrix |-> limbMatrix,
               before |-> svgObjects[childId]]
    /\ last' = "attach"
    /\ SceneFrame

\* detach of an object rendered under a limb
ScreenDetach ==
  \E childId \in {id \in DOMAIN svgObjects : attachmentRefs(svgObjects, id)} :
    LET worldMatrix == attachedScreenCTM(svgObjects, childId)
        rect == boundingClientRect(worldMatrix, svgObjects[childId].draws) IN
    /\ svgObjects' = calculateAndDetachObject(svgObjects, childId, ScreenTransformState,
                                              TRUE, rect, worldMatrix)
    /\ dom' = [op |-> "detach", childId |-> childId,
               stage |-> detachStage(svgObjects, childId, ScreenTransformState, TRUE),
               attachedElement |-> TRUE, transformState |-> ScreenTransformState,
               container |-> TRUE, worldMatrix |-> worldMatrix]
    /\ last' = "detach"
    /\ SceneFrame

\* the limb of the puppet is rotated (inspector or drag)
RotateLimb ==
  \E id \in {o \in DOMAIN svgObjects : svgObjects[o].category = "pantins"},
     angle \in QuarterTurns :
    /\ svgObjects' = handleUpdateObject(svgObjects, id,
                                        ("articulation" :> ("main_droite" :> angle)))
    /\ last' = "rotateLimb"
    /\ UNCHANGED dom
    /\ SceneFrame

\* the inspector's rotation input on a free-standing prop
SetRotation ==
  \E id \in {o \in freeStanding(svgObjects) : svgObjects[o].category # "pantins"},
     angle \in QuarterTurns :
    /\ svgObjects' = handleUpdateObject(svgObjects, id, ("rotation" :> <<angle>>))
    /\ last' = "setRotation"
    /\ UNCHANGED dom
    /\ SceneFrame

\* handleDragStop: a free-standing object is dropped at (x, y)
DragObject ==
  \E id \in freeStanding(svgObjects), x \in {3, 6} :
    /\ svgObjects' = handleUpdateObject(svgObjects, id, ("x" :> x) @@ ("y" :> 2))
    /\ last' = "dragObject"
    /\ UNCHANGED dom
    /\ SceneFrame

ScreenNext ==
  \/ ScreenAttach
  \/ ScreenDetach
  \/ RotateLimb
  \/ SetRotation
  \/ DragObject

ScreenSpec == ScreenInit /\ [][ScreenNext]_vars

(* ------------------------- chains of attachment ------------------------- *)
\* Attach, detach, hide and delete in a scene with two puppets and a prop, the
\* readings being those of the scene as laid out.

ChainInit ==
  /\ fps = 24
  /\ duration = EditDuration
  /\ currentFrame = 0
  /\ isPlaying = FALSE
  /\ loop = TRUE
  /\ tracks = <<>>
  /\ autoKeyframe = FALSE
  /\ overrides = computeOverrides(currentFrame, tracks)
  /\ svgObjects = ("objet" :> ScreenObject("objet", "objets", 3, 2, [left |-> 0, top |-> 0, width |-> 4, height |-> 8]))
                  @@ ("pantin" :> ScreenObject("pantin", "pantins", 1, 1, [left |-> 0, top |-> 0, width |-> 4, height |-> 8]))
                  @@ ("pantin2" :> ScreenObject("pantin2", "pantins", 5, 1, [left |-> 0, top |-> 0, width |-> 4, height |-> 8]))
  /\ selectedObjectId = "none"
  /\ lastTick = <<>>
  /\ rafPending = FALSE
  /\ effectPlaying = FALSE
  /\ run = <<2>>
  /\ pantin = <<>>
  /\ dom = <<>>
  /\ last = "init"

\* the context menu's Attach: the target, one of the other puppets of the
\* scene, one of its limbs
ChainAttach ==
  \E childId \in DOMAIN svgObjects, limbId \in LimbIds :
    \E parentId \in {id \in DOMAIN svgObjects : svgObjects[id].category = "pantins"} \ {childId} :
      LET childSvg == objectWrapperRefs(svgObjects, childId)
          childMatrix == IF objectWrapperRefs(svgObjects, childId)
                         THEN objectScreenCTM(svgObjects[childId]) ELSE <<>>
          limbMatrix == IF pantinRefs(svgObjects, parentId) /\ limbId \in PuppetElementIds
                        THEN limbScreenCTM(svgObjects[parentId], limbId) ELSE <<>> IN
      /\ svgObjects' = calculateAndSetAttachment(svgObjects, childId, parentId, limbId,
                                                 childSvg, childMatrix, limbMatrix)
      /\ dom' = [op |-> "attach", childId |-> childId, parentId |-> parentId, limbId |-> limbId,
                 stage |-> attachStage(svgObjects, childId, parentId, limbId,
                                       childSvg, childMatrix, limbMatrix),
                 childMatrix |-> childMatrix, limbMatrix |-> limbMatrix]
      /\ last' = "attach"
      /\ SceneFrame

\* a detach request for an object of the scene
ChainDetach ==
  \E childId \in DOMAIN svgObjects :
    LET rendered == attachmentRefs(svgObjects, childId)
        worldMatrix == IF rendered THEN attachedScreenCTM(svgObjects, childId) ELSE <<>>
        rect == boundingClientRect(worldMatrix, svgObjects[childId].draws) IN
    /\ svgObjects' = calculateAndDetachObject(svgObjects, childId, ScreenTransformState,
                                              TRUE, rect, worldMatrix)
    /\ dom' = [op |-> "detach", childId |-> childId,
               stage |-> detachStage(svgObjects, childId, ScreenTransformState, TRUE),
               attachedElement |-> rendered, transformState |-> ScreenTransformState,
               container |-> TRUE, worldMatrix |-> worldMatrix]
    /\ last' = "detach"
    /\ SceneFrame

ChainNext ==
  \/ ChainAttach
  \/ ChainDetach
  \/ ToggleHidden
  \/ DeleteObject

ChainSpec == ChainInit /\ [][ChainNext]_vars

(* ----------------------- attachment and recorder ------------------------ *)
\* Attach and detach in the App that keeps the timeline in its own state: its
\* handleUpdateObject hands every update to the recorder first.

\* the patch as the recorder's `typeof newProps.<field> === 'number'` tests
\* see it: the coordinates, and the rotation when it is not undefined
numberProps(newProps) ==
  [k \in {f \in DOMAIN newProps :
            f \in {"x", "y"} \/ (f = "rotation" /\ newProps[f] # <<>>)} |->
     IF k = "rotation" THEN newProps[k][1] ELSE newProps[k]]

KeyedInit ==
  /\ fps = 24
  /\ duration = EditDuration
  /\ currentFrame = 0
  /\ isPlaying = FALSE
  /\ loop = TRUE
  /\ tracks = <<>>
  /\ autoKeyframe = TRUE
  /\ overrides = computeOverrides(currentFrame, tracks)
  /\ svgObjects = ("objet" :> ScreenObject("objet", "objets", 3, 2, [left |-> 0, top |-> 0, width |-> 4, height |-> 8]))
                  @@ ("pantin" :> ScreenObject("pantin", "pantins", 1, 1, [left |-> 0, top |-> 0, width |-> 4, height |-> 8]))
  /\ selectedObjectId = "none"
  /\ lastTick = <<>>
  /\ rafPending = FALSE
  /\ effectPlaying = FALSE
  /\ run = <<2>>
  /\ pantin = <<>>
  /\ dom = <<>>
  /\ last = "init"

KeyedFrame ==
  UNCHANGED <<fps, duration, currentFrame, isPlaying, loop, autoKeyframe,
              selectedObjectId, playbackVars, run, pantin>>

\* Attach of the context menu: calculateAndSetAttachment, its onUpdateObject
\* being the App's handleUpdateObject (capture, then the update)
KeyedAttach ==
  \E childId \in {id \in freeStanding(svgObjects) : svgObjects[id].category # "pantins"},
     parentId \in {id \in freeStanding(svgObjects) : svgObjects[id].category = "pantins"} :
    LET limbId == "main_droite"
        childMatrix == objectScreenCTM(svgObjects[childId])
        limbMatrix == limbScreenCTM(svgObjects[parentId], limbId)
        stage == attachStage(svgObjects, childId, parentId, limbId, TRUE, childMatrix, limbMatrix) IN
    /\ tracks' = IF stage = "done"
                 THEN capturedTracks(svgObjects[childId],
                                     numberProps(attachPatch(parentId, limbId, childMatrix, limbMatrix)))
                 ELSE tracks
    /\ Len(tracks') <= MaxTracks
    /\ overrides' = computeOverrides(currentFrame, tracks')
    /\ svgObjects' = calculateAndSetAttachment(svgObjects, childId, parentId, limbId,
                                               TRUE, childMatrix, limbMatrix)
    /\ dom' = [op |-> "attach", childId |-> childId, parentId |-> parentId, limbId |-> limbId,
               stage |-> stage, childMatrix |-> childMatrix, limbMatrix |-> limbMatrix,
               before |-> svgObjects[childId]]
    /\ last' = "attach"
    /\ KeyedFrame

\* Detach of the context menu: calculateAndDetachObject, through the same
\* handleUpdateObject
KeyedDetach ==
  \E childId \in {id \in DOMAIN svgObjects : attachmentRefs(svgObjects, id)} :
    LET worldMatrix == attachedScreenCTM(svgObjects, childId)
        rect == boundingClientRect(worldMatrix, svgObjects[childId].draws)
        stage == detachStage(svgObjects, childId, ScreenTransformState, TRUE) IN
    /\ tracks' = IF stage = "done"
                 THEN capturedTracks(svgObjects[childId],
                                     numberProps(detachPatch(svgObjects[childId], ScreenTransformState,
                                                             rect, worldMatrix)))
                 ELSE tracks
    /\ Len(tracks') <= MaxTracks
    /\ overrides' = computeOverrides(currentFrame, tracks')
    /\ svgObjects' = calculateAndDetachObject(svgObjects, childId, ScreenTransformState,
                                              TRUE, rect, worldMatrix)
    /\ dom' = [op |-> "detach", childId |-> childId, stage |-> stage,
               attachedElement |-> TRUE, transformState |-> ScreenTransformState,
               container |-> TRUE, worldMatrix |-> worldMatrix]
    /\ last' = "detach"
    /\ KeyedFrame

KeyedNext ==
  \/ KeyedAttach
  \/ KeyedDetach
  \/ ScrubTo
  \/ TogglePlay
  \/ SetAutoKeyframe

KeyedSpec == KeyedInit /\ [][KeyedNext]_vars

(* ------------------------------- reset ---------------------------------- *)
\* The timeline purge and the two canvas resets of the application: the one
\* over the stores, and the one over the App's own timeline state.

DEFAULT_FPS == 24
DEFAULT_DURATION == 240

\* Timeline.makeEmptyTimeline()
makeEmptyTimeline ==
  [fps |-> DEFAULT_FPS, duration |-> DEFAULT_DURATION, currentFrame |-> 0,
   isPlaying |-> FALSE, loop |-> TRUE, tracks |-> <<>>, autoKeyframe |-> TRUE]

ResetInit ==
  /\ fps = DEFAULT_FPS
  /\ duration = MaxDuration
  /\ currentFrame = 0
  /\ isPlaying = FALSE
  /\ loop = TRUE
  /\ tracks = <<>>
  /\ autoKeyframe = TRUE
  /\ overrides = computeOverrides(currentFrame, tracks)
  /\ svgObjects = [o \in {"o1"} |-> DefaultObject]
  /\ selectedObjectId = "o1"
  /\ lastTick = <<>>
  /\ rafPending = FALSE
  /\ effectPlaying = FALSE
  /\ run = <<2>>
  /\ pantin = <<>>
  /\ dom = <<>>
  /\ last = "init"

\* the scrub of the reset specification: the Frame input, with the overrides
\* derived from the store
ResetScrub ==
  \E f \in 0..EditDuration :
    /\ currentFrame' = clampFrame(f, 0, duration)
    /\ overrides' = computeOverrides(currentFrame', tracks)
    /\ last' = "scrubTo"
    /\ UNCHANGED <<run, pantin, dom>>
    /\ UNCHANGED <<fps, duration, isPlaying, loop, tracks, autoKeyframe>>
    /\ UNCHANGED <<editorVars, playbackVars>>

\* handleResetCanvas over the stores: timeline clear(), editor reset()
StoreResetCanvas ==
  /\ isPlaying' = FALSE
  /\ currentFrame' = 0
  /\ tracks' = <<>>
  /\ overrides' = computeOverrides(currentFrame', tracks')
  /\ svgObjects' = <<>>
  /\ selectedObjectId' = "none"
  /\ last' = "resetCanvas"
  /\ UNCHANGED <<run, pantin, dom>>
  /\ UNCHANGED <<fps, duration, loop, autoKeyframe>>
  /\ UNCHANGED playbackVars

\* handleResetCanvas over the App's state: setSvgObjects([]),
\* setTimeline(makeEmptyTimeline()), setTimelineOverrides({}); the canvas
\* drops its selection
ResetCanvas ==
  /\ fps' = makeEmptyTimeline.fps
  /\ duration' = makeEmptyTimeline.duration
  /\ currentFrame' = makeEmptyTimeline.currentFrame
  /\ isPlaying' = makeEmptyTimeline.isPlaying
  /\ loop' = makeEmptyTimeline.loop
  /\ tracks' = makeEmptyTimeline.tracks
  /\ autoKeyframe' = makeEmptyTimeline.autoKeyframe
  /\ overrides' = computeOverrides(currentFrame', tracks')
  /\ svgObjects' = <<>>
  /\ selectedObjectId' = "none"
  /\ last' = "resetCanvas"
  /\ UNCHANGED <<run, pantin, dom>>
  /\ UNCHANGED playbackVars

ResetNext ==
  \/ ResetScrub
  \/ TogglePlay
  \/ SetFps
  \/ SetDuration
  \/ SetLoop
  \/ AddKeyframe
  \/ Clear
  \/ StoreResetCanvas
  \/ ResetCanvas

ResetSpec == ResetInit /\ [][ResetNext]_vars

(* ------------------------------- posing --------------------------------- *)
\* The articulation map of a puppet under the inspector's updates, and the
\* style its parts are rendered with.

\* the interactive parts of the posed puppet's document, and those of them
\* for which findPivotCoords resolves a pivot
PoseParts == {"tete", "main_droite"}
PosePivots == {"main_droite"}

\* the angles the inspector's sliders are set to
PoseAngles == {-90, 0, 90}

\* SvgPart: the style of an element with the id partId
SvgPartStyle(articulation, pivots, partId, isInteractive) ==
  IF isInteractive
  THEN [transformOrigin |-> IF partId \in pivots THEN <<partId>> ELSE <<>>,
        transform |-> <<IF partId \in DOMAIN articulation THEN articulation[partId] ELSE 0>>]
  ELSE [transformOrigin |-> <<>>, transform |-> <<>>]

\* editor store updateObject(id, patch): Object.assign(o, patch), then the
\* merge of the patch's articulation into the articulation o now has
updateObject(objs, id, patch) ==
  LET o == patch @@ objs[id] IN
  [objs EXCEPT ![id] =
     IF "articulation" \in DOMAIN patch
     THEN [o EXCEPT !.articulation = patch.articulation @@ o.articulation]
     ELSE o]

PoseInit ==
  /\ fps = 24
  /\ duration = EditDuration
  /\ currentFrame = 0
  /\ isPlaying = FALSE
  /\ loop = TRUE
  /\ tracks = <<>>
  /\ autoKeyframe = FALSE
  /\ overrides = computeOverrides(currentFrame, tracks)
  /\ svgObjects = ("pantin" :> SceneObject("pantin", "pantins", 1, 1))
  /\ selectedObjectId = "pantin"
  /\ lastTick = <<>>
  /\ rafPending = FALSE
  /\ effectPlaying = FALSE
  /\ run = <<2>>
  /\ pantin = <<>>
  /\ dom = <<>>
  /\ last = "init"

PoseFrame == UNCHANGED <<timelineVars, overrides, selectedObjectId, playbackVars, run, pantin>>

\* what an update leaves in dom: the patch and the object as it was
updateRecord(op, id, patch) ==
  [op |-> op, id |-> id, patch |-> patch, before |-> svgObjects[id]]

\* the inspector's slider of a part, handing the one angle to the editor store
StoreArticulationChange ==
  /\ selectedObjectId \in DOMAIN svgObjects
  /\ \E partName \in PoseParts, angle \in PoseAngles :
       LET patch == ("articulation" :> (partName :> angle)) IN
       /\ svgObjects' = updateObject(svgObjects, selectedObjectId, patch)
       /\ dom' = updateRecord("updateObject", selectedObjectId, patch)
  /\ last' = "updateObject"
  /\ PoseFrame

\* the inspector's slider of a part, handing the one angle to the App's
\* handleUpdateObject (auto-keyframe off)
HandleArticulationChange ==
  /\ selectedObjectId \in DOMAIN svgObjects
  /\ \E partName \in PoseParts, angle \in PoseAngles :
       LET patch == ("articulation" :> (partName :> angle)) IN
       /\ svgObjects' = handleUpdateObject(svgObjects, selectedObjectId, patch)
       /\ dom' = updateRecord("handleUpdateObject", selectedObjectId, patch)
  /\ last' = "updateObject"
  /\ PoseFrame

\* the inspector's slider of a part, handing the whole map with the one angle
\* changed to the editor store
MergedArticulationChange ==
  /\ selectedObjectId \in DOMAIN svgObjects
  /\ \E partName \in PoseParts, angle \in PoseAngles :
       LET current == svgObjects[selectedObjectId].articulation
           patch == ("articulation" :> ((partName :> angle) @@ current)) IN
       /\ svgObjects' = updateObject(svgObjects, selectedObjectId, patch)
       /\ dom' = updateRecord("updateObject", selectedObjectId, patch)
  /\ last' = "updateObject"
  /\ PoseFrame

PoseNext ==
  \/ StoreArticulationChange
  \/ HandleArticulationChange
  \/ MergedArticulationChange

PoseSpec == PoseInit /\ [][PoseNext]_vars

(* ------------------------------ creation -------------------------------- *)
\* The scene list under the creation of objects and spotlights, whose ids are
\* made of the clock's millisecond, and under deletion.  Here svgObjects is the
\* list itself, and dom.now the millisecond Date.now() returns.

\* the milliseconds of the model, the length of the list and the z-index the
\* creations stay under
MaxClock == 2
MaxObjects == 3
MaxZIndex == 7

\* Math.max(0, ...svgObjects.map(o => o.zIndex ?? 0))
maxZ(objs) == Max({0} \cup {objs[i].zIndex : i \in 1..Len(objs)})

\* onAddObject: setSvgObjects(prev => [...prev, newObject])
onAddObject(objs, newObject) == Append(objs, newObject)

\* prev.filter(obj => obj.id !== id)
filterOut(objs, id) == SelectSeq(objs, LAMBDA o : o.id # id)

SpawnInit ==
  /\ fps = 24
  /\ duration = EditDuration
  /\ currentFrame = 0
  /\ isPlaying = FALSE
  /\ loop = TRUE
  /\ tracks = <<>>
  /\ autoKeyframe = FALSE
  /\ overrides = computeOverrides(currentFrame, tracks)
  /\ svgObjects = <<>>
  /\ selectedObjectId = "none"
  /\ lastTick = <<>>
  /\ rafPending = FALSE
  /\ effectPlaying = FALSE
  /\ run = <<2>>
  /\ pantin = <<>>
  /\ dom = [now |-> 0]
  /\ last = "init"

SpawnFrame == UNCHANGED <<timelineVars, overrides, selectedObjectId, playbackVars, run, pantin>>

\* the clock passes to the next millisecond
ClockTick ==
  /\ dom.now < MaxClock
  /\ dom' = [now |-> dom.now + 1]
  /\ UNCHANGED svgObjects
  /\ last' = "clockTick"
  /\ SpawnFrame

\* spawnAndAddObject(svgContent, category), with a background set
SpawnAndAddObject ==
  /\ Len(svgObjects) < MaxObjects
  /\ maxZ(svgObjects) + 1 <= MaxZIndex
  /\ \E category \in {"objets", "pantins"} :
       svgObjects' = onAddObject(svgObjects,
                                 [id |-> <<"svg", dom.now>>, category |-> category,
                                  zIndex |-> maxZ(svgObjects) + 1])
  /\ UNCHANGED dom
  /\ last' = "spawnAndAddObject"
  /\ SpawnFrame

\* addSpotlight(), with a background set
AddSpotlight ==
  /\ Len(svgObjects) < MaxObjects
  /\ maxZ(svgObjects) + 5 <= MaxZIndex
  /\ svgObjects' = onAddObject(svgObjects,
                               [id |-> <<"spot", dom.now>>, category |-> "objets",
                                zIndex |-> maxZ(svgObjects) + 5])
  /\ UNCHANGED dom
  /\ last' = "addSpotlight"
  /\ SpawnFrame

\* handleDeleteObject(id) on the list
DeleteFromList ==
  /\ \E i \in 1..Len(svgObjects) : svgObjects' = filterOut(svgObjects, svgObjects[i].id)
  /\ UNCHANGED dom
  /\ last' = "deleteObject"
  /\ SpawnFrame

SpawnNext ==
  \/ ClockTick
  \/ SpawnAndAddObject
  \/ AddSpotlight
  \/ DeleteFromList

SpawnSpec == SpawnInit /\ [][SpawnNext]_vars

(* ---------------------- claims about the evaluator --------------------- *)

\* the override patch computed for the object of track t
PatchOf(t) == overrides[t.objectId]

\* integer r is the fraction num/den (den > 0) rounded to a nearest integer
IsNearest(r, num, den) == 2 * den * r - 2 * num <= den /\ 2 * num - 2 * den * r <= den

\* integer r is num/den rounded as Math.round does: nearest, a tie goes up
IsRounded(r, num, den) == 2 * den * r - 2 * num <= den /\ 2 * num - 2 * den * r < den

\* the patch of track t carries exactly the stored value v
HoldsExactly(t, v) ==
  LET patch == PatchOf(t) IN
  CASE t.property = "position" ->
         /\ {"x", "y"} \subseteq DOMAIN patch
         /\ patch.x * Scale = v.x /\ patch.y * Scale = v.y
    [] t.property = "rotation" ->
         "rotation" \in DOMAIN patch /\ patch.rotation * Scale = v.n
    [] t.property = "visibility" ->
         "hidden" \in DOMAIN patch /\ patch.hidden = ~v.b
    [] t.property = "articulation" ->
         /\ "articulation" \in DOMAIN patch
         /\ t.part \in DOMAIN patch.articulation
         /\ patch.articulation[t.part] * Scale = v.n

\* the patch of track t carries the stored value v rounded by Math.round
HoldsRounded(t, v) ==
  LET patch == PatchOf(t) IN
  CASE t.property = "position" ->
         /\ {"x", "y"} \subseteq DOMAIN patch
         /\ IsRounded(patch.x, v.x, Scale) /\ IsRounded(patch.y, v.y, Scale)
    [] t.property = "rotation" ->
         "rotation" \in DOMAIN patch /\ IsRounded(patch.rotation, v.n, Scale)
    [] t.property = "visibility" ->
         "hidden" \in DOMAIN patch /\ patch.hidden = ~v.b
    [] t.property = "articulation" ->
         /\ "articulation" \in DOMAIN patch
         /\ t.part \in DOMAIN patch.articulation
         /\ IsRounded(patch.articulation[t.part], v.n, Scale)

TrackIndexes == 1..Len(tracks)

\* C1 as claimed: evaluating at a keyframe's frame puts exactly the keyframe's
\* stored value into the override of the track's property (read after scrubTo).
ExactFrameStoredValue ==
  last = "scrubTo" => \A i \in TrackIndexes : \A j \in 1..Len(tracks[i].keyframes) :
    tracks[i].keyframes[j].frame = currentFrame
      => HoldsExactly(tracks[i], tracks[i].keyframes[j].value)

\* C1 as amended: evaluating at a keyframe's frame puts the keyframe's own
\* stored value, rounded to the nearest integer (a tie upwards), into the
\* override of the track's property: exactly the stored value when it is an
\* integer or a boolean, and never a value derived from a neighbouring keyframe.
ExactFrameRoundedValue ==
  \A i \in TrackIndexes : \A j \in 1..Len(tracks[i].keyframes) :
    LET k == tracks[i].keyframes[j] IN
    k.frame = currentFrame
      => /\ HoldsRounded(tracks[i], k.value)
         /\ (tracks[i].property \in {"rotation", "articulation"} /\ k.value.n % Scale = 0)
              => HoldsExactly(tracks[i], k.value)

\* C1 witness: the playhead was moved onto the middle one of three rotation
\* keyframes, which holds a non-integer angle differing from both neighbours.
ExactFrameWitness ==
  /\ last = "scrubTo"
  /\ \E i \in TrackIndexes :
       LET kfs == tracks[i].keyframes IN
       /\ tracks[i].property = "rotation"
       /\ Len(kfs) = 3
       /\ kfs[2].frame = currentFrame
       /\ kfs[2].value.n % Scale # 0
       /\ kfs[1].value # kfs[2].value /\ kfs[3].value # kfs[2].value

\* components (prev, next, result) of a numeric track's span value
Components(t, prev, next) ==
  LET patch == PatchOf(t) IN
  CASE t.property = "position" ->
         {[a |-> prev.value.x, b |-> next.value.x, has |-> "x" \in DOMAIN patch,
           r |-> IF "x" \in DOMAIN patch THEN patch.x ELSE 0],
          [a |-> prev.value.y, b |-> next.value.y, has |-> "y" \in DOMAIN patch,
           r |-> IF "y" \in DOMAIN patch THEN patch.y ELSE 0]}
    [] t.property = "rotation" ->
         {[a |-> prev.value.n, b |-> next.value.n, has |-> "rotation" \in DOMAIN patch,
           r |-> IF "rotation" \in DOMAIN patch THEN patch.rotation ELSE 0]}
    [] t.property = "articulation" ->
         LET has == "articulation" \in DOMAIN patch /\ t.part \in DOMAIN patch.articulation IN
         {[a |-> prev.value.n, b |-> next.value.n, has |-> has,
           r |-> IF has THEN patch.articulation[t.part] ELSE 0]}

NumericProperties == {"position", "rotation", "articulation"}

\* the playhead is strictly between keyframes j and j+1 of track i
StrictlyBetween(i, j) ==
  /\ tracks[i].keyframes[j].frame < currentFrame
  /\ currentFrame < tracks[i].keyframes[j + 1].frame

\* the spec's scenario: 0 at frame 0 and 100 at frame 10, both linear
ScenarioLinearTrack(property) ==
  [id |-> 1, objectId |-> "o1", property |-> property, part |-> "tete",
   keyframes |-> <<[frame |-> 0, value |-> [n |-> 0], interpolation |-> "linear"],
                   [frame |-> 10, value |-> [n |-> 100 * Scale], interpolation |-> "linear"]>>]

\* C2: strictly between consecutive keyframes prev and next with next linear
\* (or without interpolation field), each numeric component of the override is
\* prev + (next - prev) * (frame - prev.frame) / (next.frame - prev.frame)
\* rounded to the nearest integer; 0@0 and 100@10 give 50 at frame 5.
LinearInterpolation ==
  /\ \A i \in TrackIndexes : \A j \in 1..(Len(tracks[i].keyframes) - 1) :
       LET prev == tracks[i].keyframes[j]
           next == tracks[i].keyframes[j + 1]
           span == next.frame - prev.frame IN
       (/\ tracks[i].property \in NumericProperties
        /\ StrictlyBetween(i, j)
        /\ next.interpolation \in {"linear", "absent"})
         => \A c \in Components(tracks[i], prev, next) :
              /\ c.has
              /\ IsNearest(c.r, c.a * span + (c.b - c.a) * (currentFrame - prev.frame),
                           Scale * span)
  /\ computeOverrides(5, <<ScenarioLinearTrack("rotation")>>)["o1"].rotation = 50
  /\ computeOverrides(5, <<ScenarioLinearTrack("articulation")>>)["o1"].articulation["tete"] = 50

\* C2 witness: the playhead was moved strictly between two position keyframes
\* with different x and different y, the later one linear.
LinearInterpolationWitness ==
  /\ last = "scrubTo"
  /\ \E i \in TrackIndexes : \E j \in 1..(Len(tracks[i].keyframes) - 1) :
       /\ tracks[i].property = "position"
       /\ StrictlyBetween(i, j)
       /\ tracks[i].keyframes[j + 1].interpolation = "linear"
       /\ tracks[i].keyframes[j].interpolation = "step"
       /\ tracks[i].keyframes[j].value.x # tracks[i].keyframes[j + 1].value.x
       /\ tracks[i].keyframes[j].value.y # tracks[i].keyframes[j + 1].value.y

\* the evaluator's result for track t at a frame: <<>> or <<value>>
EvalOf(t, frame) ==
  CASE t.property = "position" -> evaluatePosition(t.keyframes, frame)
    [] t.property = "visibility" -> evaluateVisibility(t.keyframes, frame)
    [] OTHER -> evaluateNumber(t.keyframes, frame)

\* a stored value as the evaluator returns it when it holds the value
Held(t, v) ==
  CASE t.property = "position" -> <<[x |-> ToQ(v.x), y |-> ToQ(v.y)]>>
    [] t.property = "visibility" -> <<v.b>>
    [] OTHER -> <<ToQ(v.n)>>

\* tracks with keyframe j of track i given interpolation p
WithInterpolation(i, j, p) ==
  [tracks EXCEPT ![i].keyframes[j].interpolation = p]

\* C3: strictly between consecutive keyframes prev and next of a numeric track
\* the policy is next's: with next step the result is prev's value, and
\* prev.interpolation never influences the result.
StepPolicyFromNext ==
  \A i \in TrackIndexes : \A j \in 1..(Len(tracks[i].keyframes) - 1) :
    LET prev == tracks[i].keyframes[j]
        next == tracks[i].keyframes[j + 1] IN
    (tracks[i].property \in NumericProperties /\ StrictlyBetween(i, j))
      => /\ next.interpolation = "step"
              => /\ EvalOf(tracks[i], currentFrame) = Held(tracks[i], prev.value)
                 /\ HoldsRounded(tracks[i], prev.value)
         /\ \A p \in InterpolationSet :
              computeOverrides(currentFrame, WithInterpolation(i, j, p)) = overrides

\* C3 witness: strictly between a linear prev and a step next of different
\* angles on an articulation track.
StepPolicyWitness ==
  /\ last = "scrubTo"
  /\ \E i \in TrackIndexes : \E j \in 1..(Len(tracks[i].keyframes) - 1) :
       /\ tracks[i].property = "articulation"
       /\ StrictlyBetween(i, j)
       /\ tracks[i].keyframes[j].interpolation = "linear"
       /\ tracks[i].keyframes[j + 1].interpolation = "step"
       /\ tracks[i].keyframes[j].value # tracks[i].keyframes[j + 1].value

\* the keyframe of kfs that is visible at frame: the latest at or before it,
\* or the earliest of all when there is none
HeldKeyframe(kfs, frame) ==
  LET all == {kfs[j] : j \in 1..Len(kfs)}
      before == {k \in all : k.frame <= frame} IN
  IF before # {} THEN CHOOSE k \in before : \A o \in before : o.frame <= k.frame
  ELSE CHOOSE k \in all : \A o \in all : k.frame <= o.frame

\* the spec's scenario: visible at frame 0, not visible at frame 10
ScenarioVisibilityTrack ==
  [id |-> 1, objectId |-> "o1", property |-> "visibility", part |-> "none",
   keyframes |-> <<[frame |-> 0, value |-> [b |-> TRUE], interpolation |-> "linear"],
                   [frame |-> 10, value |-> [b |-> FALSE], interpolation |-> "linear"]>>]

\* C4: a visibility track never interpolates and ignores interpolation: the
\* value is that of the latest keyframe at or before the frame, else of the
\* earliest keyframe, and hidden is its negation (true@0, false@10: visible
\* at 9, not visible at 10).
VisibilityHold ==
  /\ \A i \in TrackIndexes :
       (tracks[i].property = "visibility" /\ Len(tracks[i].keyframes) > 0)
         => LET k == HeldKeyframe(tracks[i].keyframes, currentFrame) IN
            /\ EvalOf(tracks[i], currentFrame) = <<k.value.b>>
            /\ "hidden" \in DOMAIN PatchOf(tracks[i])
            /\ PatchOf(tracks[i]).hidden = ~k.value.b
  /\ computeOverrides(9, <<ScenarioVisibilityTrack>>)["o1"].hidden = FALSE
  /\ computeOverrides(10, <<ScenarioVisibilityTrack>>)["o1"].hidden = TRUE

\* C4 witness: the playhead strictly between a visible keyframe and a later
\* linear keyframe that is not visible.
VisibilityHoldWitness ==
  /\ last = "scrubTo"
  /\ \E i \in TrackIndexes : \E j \in 1..(Len(tracks[i].keyframes) - 1) :
       /\ tracks[i].property = "visibility"
       /\ StrictlyBetween(i, j)
       /\ tracks[i].keyframes[j].value.b /\ ~tracks[i].keyframes[j + 1].value.b
       /\ tracks[i].keyframes[j + 1].interpolation = "linear"

\* the track contributes nothing to the patch of its object
NoContribution(t) ==
  LET patch == PatchOf(t) IN
  CASE t.property = "position" -> "x" \notin DOMAIN patch /\ "y" \notin DOMAIN patch
    [] t.property = "rotation" -> "rotation" \notin DOMAIN patch
    [] t.property = "visibility" -> "hidden" \notin DOMAIN patch
    [] t.property = "articulation" ->
         "articulation" \in DOMAIN patch => t.part \notin DOMAIN patch.articulation

\* the spec's scenario: a single keyframe at frame 20
ScenarioSingleKeyframe == <<[frame |-> 20, value |-> [n |-> 1], interpolation |-> "linear"]>>

\* C5: before the first keyframe the evaluator yields the first keyframe's
\* value, after the last the last one's; a single keyframe yields its value
\* at every frame; a track without keyframes contributes no property.
OutOfRangeHold ==
  /\ \A i \in TrackIndexes :
       LET t == tracks[i]
           kfs == t.keyframes IN
       /\ Len(kfs) = 0 => (EvalOf(t, currentFrame) = <<>> /\ NoContribution(t))
       /\ (Len(kfs) > 0 /\ currentFrame < kfs[1].frame)
            => (EvalOf(t, currentFrame) = Held(t, kfs[1].value)
                /\ HoldsRounded(t, kfs[1].value))
       /\ (Len(kfs) > 0 /\ currentFrame > kfs[Len(kfs)].frame)
            => (EvalOf(t, currentFrame) = Held(t, kfs[Len(kfs)].value)
                /\ HoldsRounded(t, kfs[Len(kfs)].value))
       /\ Len(kfs) = 1
            => \A f \in 0..(MaxFrame + 1) : EvalOf(t, f) = Held(t, kfs[1].value)
  /\ \A f \in {0, 20, 1000} : evaluateNumber(ScenarioSingleKeyframe, f) = <<ToQ(1)>>

\* C5 witness: the playhead was moved before the first of two keyframes
\* holding different positions.
OutOfRangeHoldWitness ==
  /\ last = "scrubTo"
  /\ \E i \in TrackIndexes :
       /\ tracks[i].property = "position"
       /\ Len(tracks[i].keyframes) = 2
       /\ currentFrame < tracks[i].keyframes[1].frame
       /\ tracks[i].keyframes[1].value # tracks[i].keyframes[2].value

(* ----------------------- claims about the recorder --------------------- *)

\* the frames of a keyframe list, in list order
FramesOf(kfs) == [j \in 1..Len(kfs) |-> kfs[j].frame]

\* a keyframe list has strictly increasing frames
StrictlyIncreasing(kfs) == \A j \in 1..(Len(kfs) - 1) : kfs[j].frame < kfs[j + 1].frame

\* the keyframes of kfs at frame
KeyframesAt(kfs, frame) == LET at(k) == k.frame = frame IN SelectSeq(kfs, at)

\* the keyframes an upsert can bring to a track: any frame of the timeline, a
\* value of the track's type
UpsertInputs(t) ==
  [frame : 0..duration,
   value : IF t.property = "position" THEN {[x |-> 1, y |-> 0]}
           ELSE IF t.property = "visibility" THEN {[b |-> TRUE]}
           ELSE {[n |-> 1]},
   interpolation : {"linear"}]

\* C6: in every state reached from the empty timeline by captures, manual
\* Add-keyframe and deleteKeyframe at any playhead position, every track's
\* keyframes have strictly increasing frames (at most one per frame, ascending),
\* and upserting the same keyframe twice at a frame leaves exactly that one
\* keyframe at the frame, the list still strictly increasing.
KeyframesStrictlyIncreasing ==
  \A i \in 1..Len(tracks) :
    /\ StrictlyIncreasing(tracks[i].keyframes)
    /\ \A kf \in UpsertInputs(tracks[i]) :
         LET once == upsertKeyframe(tracks[i].keyframes, kf)
             twice == upsertKeyframe(once, kf) IN
         /\ KeyframesAt(twice, kf.frame) = <<kf>>
         /\ StrictlyIncreasing(twice)

\* C6 witness: a capture has left a track with keyframes at two frames, the
\* later one recorded first
KeyframesStrictlyIncreasingWitness ==
  /\ last \in {"captureFromUpdate", "handleUpdateObject"}
  /\ currentFrame = 0
  /\ \E i \in 1..Len(tracks) : FramesOf(tracks[i].keyframes) = <<0, 1>>

\* C7: a property update captured (captureFromUpdate, handleUpdateObject) while
\* autoKeyframe is false or isPlaying is true leaves the tracks and all their
\* keyframes unchanged.
AutoKeyframeGating ==
  [][(/\ last' \in {"captureFromUpdate", "handleUpdateObject"}
      /\ (~autoKeyframe \/ isPlaying))
     => tracks' = tracks]_vars

\* C7 witness: a capture ran during playback with autoKeyframe on, on a
\* timeline that has keyframes
AutoKeyframeGatingWitness ==
  /\ last \in {"captureFromUpdate", "handleUpdateObject"}
  /\ autoKeyframe /\ isPlaying
  /\ \E i \in 1..Len(tracks) : tracks[i].keyframes # <<>>

\* patches handed to the recorder
RecordPatches ==
  {("x" :> 1), ("y" :> -3), ("x" :> -3) @@ ("y" :> 1), ("rotation" :> 1),
   ("hidden" :> TRUE), ("hidden" :> FALSE),
   ("articulation" :> ("tete" :> -3)),
   ("articulation" :> (("tete" :> 1) @@ ("main_droite" :> -3))),
   ("y" :> 1) @@ ("rotation" :> -3) @@ ("hidden" :> TRUE)}

\* the (property, part) pairs a patch is recognised to carry
RecognisedKinds(patch) ==
     {k \in {[property |-> "position", part |-> "none"]} : Has(patch, "x") \/ Has(patch, "y")}
  \cup {k \in {[property |-> "rotation", part |-> "none"]} : Has(patch, "rotation")}
  \cup {k \in {[property |-> "visibility", part |-> "none"]} : Has(patch, "hidden")}
  \cup (IF Has(patch, "articulation")
        THEN {[property |-> "articulation", part |-> p] : p \in DOMAIN patch.articulation}
        ELSE {})

\* the keyframe the claim expects for a recognised kind: the resulting value
\* of the object, linear but step for visibility
ExpectedKeyframe(kind, object, patch, frame) ==
  CASE kind.property = "position" ->
         [frame |-> frame,
          value |-> [x |-> IF Has(patch, "x") THEN patch.x ELSE object.x,
                     y |-> IF Has(patch, "y") THEN patch.y ELSE object.y],
          interpolation |-> "linear"]
    [] kind.property = "rotation" ->
         [frame |-> frame, value |-> [n |-> patch.rotation], interpolation |-> "linear"]
    [] kind.property = "visibility" ->
         [frame |-> frame, value |-> [b |-> ~patch.hidden], interpolation |-> "step"]
    [] kind.property = "articulation" ->
         [frame |-> frame, value |-> [n |-> patch.articulation[kind.part]],
          interpolation |-> "linear"]

\* out is trks after the claim's record of patch on object at frame
Recorded(trks, out, object, patch, frame) ==
  LET kinds == RecognisedKinds(patch)
      old(kind) == findTrack(trks, object.id, kind.property, kind.part)
      new(kind) == findTrack(out, object.id, kind.property, kind.part)
      touched == {old(kind) : kind \in kinds} IN
  /\ Len(out) = Len(trks) + Cardinality({kind \in kinds : old(kind) = 0})
  /\ \A kind \in kinds :
       /\ new(kind) # 0
       /\ old(kind) # 0 => new(kind) = old(kind)
       /\ KeyframesAt(out[new(kind)].keyframes, frame)
            = <<ExpectedKeyframe(kind, object, patch, frame)>>
       /\ removeAtSame(out[new(kind)].keyframes, frame)
            = IF old(kind) = 0 THEN <<>> ELSE removeAtSame(trks[old(kind)].keyframes, frame)
       /\ StrictlyIncreasing(out[new(kind)].keyframes)
  /\ \A i \in 1..Len(trks) : i \notin touched => out[i] = trks[i]

\* C8: record(timeline, object, patch) upserts at currentFrame one keyframe per
\* recognised property of the patch with the resulting value of the object (a
\* missing coordinate is the object's current one, visibility is NOT hidden and
\* step, the others linear, one articulation track per part of the patch), and
\* leaves the tracks of properties absent from the patch unchanged.
RecordSemantics ==
  \A id \in DOMAIN svgObjects : \A patch \in RecordPatches :
    Recorded(tracks,
             addKeyframesFromUpdate(currentFrame, tracks, svgObjects[id], patch),
             svgObjects[id], patch, currentFrame)

\* C8 witness: a capture of a patch carrying only x has recorded, at the
\* playhead, a position keyframe with the object's y on a track that holds
\* another keyframe
RecordSemanticsWitness ==
  /\ last = "captureFromUpdate"
  /\ autoKeyframe /\ ~isPlaying
  /\ currentFrame = 1
  /\ \E i \in 1..Len(tracks) :
       /\ tracks[i].property = "position"
       /\ Len(tracks[i].keyframes) = 2
       /\ KeyframesAt(tracks[i].keyframes, currentFrame)
            = <<[frame |-> 1, value |-> [x |-> 1, y |-> svgObjects["o1"].y],
                 interpolation |-> "linear"]>>

(* ------------------------ claims about playback ------------------------ *)

\* C9: in every reachable timeline state currentFrame is an integer with
\* 0 <= currentFrame <= duration, after any sequence of scrubTo, keyboard
\* stepping, playback ticks, stop, clear and edits of duration or fps.
CurrentFrameWithinDuration == currentFrame \in 0..duration

\* the names a step of tick leaves in last
TickNames == {"tickReturn", "tickIdle", "tickAdvance", "tickWrap", "tickEnd"}

\* C10: with loop on, a tick that advances n >= 1 frames from currentFrame
\* with currentFrame + n >= duration sets currentFrame to
\* (currentFrame + n) mod duration, a value in 0..duration - 1, and leaves
\* isPlaying true; at duration 100 and currentFrame 98, advancing 5 frames
\* gives currentFrame 3.
PlaybackWrap ==
  [][LET n == framesToAdvance(lastTick, fps) IN
     /\ (/\ last' \in TickNames
         /\ isPlaying /\ loop
         /\ n >= 1
         /\ currentFrame + n >= duration)
        => /\ currentFrame' = (currentFrame + n) % duration
           /\ currentFrame' \in 0..(duration - 1)
           /\ isPlaying'
     /\ tickFrame(98, 5, 100, TRUE) = [currentFrame |-> 3, isPlaying |-> TRUE]]_vars

\* C10 witness: a looping tick has wrapped past the end of the longest
\* timeline to a frame that is neither 0 nor the duration
PlaybackWrapWitness ==
  /\ last = "tickWrap"
  /\ loop /\ isPlaying
  /\ duration = MaxDuration
  /\ currentFrame = 1

\* C11: with loop off, running playback whose ticks keep arriving with
\* advancing time eventually reaches isPlaying = false with
\* currentFrame = duration, and no tick sets currentFrame above duration.
PlaybackClampsAndStops ==
  /\ [][(last' \in TickNames /\ ~loop /\ currentFrame' # currentFrame)
        => currentFrame' <= duration]_vars
  /\ ((isPlaying /\ ~loop) ~> (~isPlaying /\ currentFrame = duration))

\* C11 witness: a non-looping run that started below the end has been
\* stopped by a tick at the end of the longest timeline
PlaybackClampsAndStopsWitness ==
  /\ last = "tickEnd"
  /\ ~loop /\ ~isPlaying
  /\ duration = MaxDuration
  /\ currentFrame = duration
  /\ run[1] = 1 /\ run[4] = 0 /\ run[3] > duration

\* C12: during uninterrupted playback that has not reached the end of the
\* timeline, after the ticks at t0 < ... < tn (t0 the first tick after play)
\* the frames advanced equal floor((tn - t0) * fps / 1000): the sub-frame
\* remainder is carried over, not discarded.
FrameAccuratePlayback ==
  (/\ last \in TickNames
   /\ isPlaying
   /\ run[1] = 1
   /\ currentFrame = run[4] + run[3]
   /\ currentFrame < duration
   /\ run[4] + (run[2] * fps) \div UnitsPerSecond < duration)
  => run[3] = (run[2] * fps) \div UnitsPerSecond

(* ------------------ claims about the rotation controller --------------- *)

\* the controller is Dragging
Dragging(c) == c.rotating

\* the names a pointer release leaves in last
ReleaseNames == {"pointerUp", "pointerCancel"}

\* C13: while the controller is Dragging, a further pointer-press on the puppet
\* is ignored: the active part and the base angle offset of the first press
\* are unchanged.
SingleActiveDrag ==
  [][(Dragging(pantin) /\ last' = "pointerDown")
     => /\ pantin'.activePart = pantin.activePart
        /\ pantin'.baseAngle = pantin.baseAngle]_vars

\* C14: toggling rotate mode off while a part is dragged ends Dragging at once:
\* with rotate mode off the controller is not Dragging and a pointer move
\* emits no articulation change.
RotateModeOffEndsDrag ==
  ~pantin.rotateMode => (~Dragging(pantin) /\ pantin.emitted = <<>>)

\* C15: a pointer-release or pointer-cancel always returns the controller to
\* Idle (no active part), fires the interaction-end callback once when it
\* ends a drag, and from Idle pointer moves emit nothing and only a press
\* enters Dragging.
ReleaseReturnsToIdle ==
  [][/\ last' \in ReleaseNames
        => /\ ~Dragging(pantin') /\ pantin'.activePart = "none"
           /\ pantin'.ended = (IF Dragging(pantin) THEN 1 ELSE 0)
           /\ pantin'.emitted = <<>>
     /\ (~Dragging(pantin) /\ last' = "pointerMove") => pantin'.emitted = <<>>
     /\ (~Dragging(pantin) /\ Dragging(pantin')) => last' = "pointerDown"]_vars

\* C15 witness: a release has ended a drag during which a second press, after
\* a re-render, had registered a second listener pair
ReleaseReturnsToIdleWitness ==
  /\ last \in ReleaseNames
  /\ pantin.ended = 1
  /\ ~Dragging(pantin)
  /\ Len(pantin.listeners) = 1

\* C16: a pointer-press enters Dragging only if rotate mode is on, the press
\* resolves to an interactive part with an id and the part's pivot resolves;
\* a press from Idle on a part without a resolvable pivot leaves the
\* controller Idle, fires no interaction-start, and the moves of that gesture
\* emit nothing.
PressEntersDragging ==
  [][/\ (last' = "pointerDown" /\ ~Dragging(pantin) /\ Dragging(pantin'))
        => /\ pantin.rotateMode
           /\ pantin'.pressed \in InteractiveParts
           /\ pantin'.activePart = pantin'.pressed
           /\ findPivotForPart(pantin'.pressed)
           /\ pantin'.started = 1
     /\ (/\ last' = "pointerDown" /\ ~Dragging(pantin)
         /\ pantin'.pressed \in InteractiveParts
         /\ ~findPivotForPart(pantin'.pressed))
        => /\ ~Dragging(pantin')
           /\ pantin'.started = 0
           /\ \A ang \in PointerAngles : onPointerMove(pantin', ang).emitted = <<>>]_vars

\* C16 witness: in rotate mode a press on the torso, which has no pivot, has
\* left the controller Idle
PressEntersDraggingWitness ==
  /\ last = "pointerDown"
  /\ pantin.rotateMode
  /\ pantin.pressed = "torse"
  /\ ~Dragging(pantin)
  /\ pantin.started = 0

\* C17: on every pointer move while Dragging the raw angle
\* pointerAngle + baseAngleOffset is normalized into the half-open interval
\* (-180, 180] before the flip mapping: every normalized angle of an emitted
\* articulation change is above -180 and at most 180 (a raw angle of 180 or
\* -180 degrees gives 180).
NormalizedUpperClosed ==
  \A i \in 1..Len(pantin.emitted) :
    pantin.emitted[i].final > -180 /\ pantin.emitted[i].final <= 180

\* raw angles pointerAngle + baseAngleOffset, in degrees
RawAngles == {-540, -360, -270, -181, -180, -179, -90, -1, 0, 1, 90, 179, 180, 181, 360, 540}

\* a is b plus a whole number of turns
SameDirection(a, b) == (a - b) % 360 = 0

\* C17, amended: on every pointer move while Dragging the raw angle is
\* normalized into the half-open interval [-180, 180), the same direction as
\* the raw angle, before the flip mapping: raw angles of 180 and of -180
\* degrees both normalize to -180, and the emitted angle is the normalized
\* angle, negated on a flipped puppet.
NormalizedLowerClosed ==
  /\ \A raw \in RawAngles :
       /\ normalizeAngle(raw) >= -180 /\ normalizeAngle(raw) < 180
       /\ SameDirection(normalizeAngle(raw), raw)
  /\ normalizeAngle(180) = -180 /\ normalizeAngle(-180) = -180
  /\ \A i \in 1..Len(pantin.emitted) :
       LET m == pantin.emitted[i] IN
       /\ m.final >= -180 /\ m.final < 180
       /\ SameDirection(m.final, m.newAngle)
       /\ m.angle = (IF m.isFlipped THEN -m.final ELSE m.final)

\* C17 witness: on a flipped puppet a move has brought the raw angle to 180
\* degrees: it is normalized to -180 and emitted as 180
NormalizedLowerClosedWitness ==
  /\ last = "pointerMove"
  /\ pantin.emitted # <<>>
  /\ pantin.emitted[1].newAngle = 180
  /\ pantin.emitted[1].final = -180
  /\ pantin.emitted[1].isFlipped
  /\ pantin.emitted[1].angle = 180

\* articulation maps: stored angles of some parts, the others absent
ArticulationMaps ==
  {("main_droite" :> 30) @@ ("main_gauche" :> -45) @@ ("tete" :> 10),
   ("main_droite" :> 30),
   ("pied_gauche" :> -180) @@ ("tete" :> 90),
   [k \in {} |-> 0]}

\* parts, paired and unpaired
AllParts == DOMAIN MIRROR_MAP \cup {"tete", "torse"}

\* stored(p): the stored angle of a part, 0 when absent
StoredAngle(articulation, p) == IF p \in DOMAIN articulation THEN articulation[p] ELSE 0

\* mirror(p): the part's pair, the part itself when unpaired
MirrorOf(p) == IF p \in DOMAIN MIRROR_MAP THEN MIRROR_MAP[p] ELSE p

\* the claim's effective angle holds for an articulation map
EffectiveAngleOn(articulation) ==
  \A p \in AllParts, flipped \in BOOLEAN :
    LET expected == IF flipped THEN -StoredAngle(articulation, MirrorOf(p))
                    ELSE StoredAngle(articulation, p) IN
    /\ currentAngle(articulation, p, flipped) = expected
    /\ inspectorAngle(articulation, p, flipped) = expected

\* C18: the angle the controller and the inspector use for a part p is
\* stored(p) when the puppet is not flipped and -stored(mirror(p)) when it is
\* (mirror(p) = p for unpaired parts, absent parts count as 0); for a mirrored
\* pair (L, R) the flipped angle of L is -stored(R) and vice versa, and the
\* mirror table is symmetric.
EffectiveAngleMirror ==
  /\ \A articulation \in ArticulationMaps \cup {pantin.articulation} :
       EffectiveAngleOn(articulation)
  /\ \A p \in DOMAIN MIRROR_MAP :
       /\ MIRROR_MAP[p] \in DOMAIN MIRROR_MAP
       /\ MIRROR_MAP[p] # p
       /\ MIRROR_MAP[MIRROR_MAP[p]] = p
       /\ currentAngle(pantin.articulation, p, TRUE)
            = -StoredAngle(pantin.articulation, MIRROR_MAP[p])
  /\ (last = "pointerDown" /\ Dragging(pantin) /\ pantin.started = 1)
     => \E startAng \in PointerAngles :
          pantin.baseAngle
            = (IF pantin.flipped
               THEN -StoredAngle(pantin.articulation, MirrorOf(pantin.pressed))
               ELSE StoredAngle(pantin.articulation, pantin.pressed)) - startAng

\* C18 witness: on a flipped puppet whose left hand is rotated and right hand
\* is not, a press on the right hand has started a drag
EffectiveAngleMirrorWitness ==
  /\ last = "pointerDown"
  /\ Dragging(pantin) /\ pantin.started = 1
  /\ pantin.flipped
  /\ pantin.pressed = "main_droite"
  /\ pantin.articulation["main_gauche"] # 0
  /\ pantin.articulation["main_droite"] = 0

(* ------------------- claims about the attachment engine ---------------- *)

\* the fields a successful attach writes
AttachFields == {"attachmentInfo", "x", "y"}

\* C19: a successful Attach(child, parent, limb) sets on the child exactly
\* attachmentInfo = {parentId, limbId, transform} with
\* transform = inverse(limbWorldTransform) * childWorldTransform (the limb's
\* transform composed with it gives back the child's) and x = y = 0; every
\* other field of the child and every other object is unchanged; and an
\* attached object is never rendered free-standing, only under its parent's
\* limb.
AttachEffect ==
  [][/\ (last' = "attach" /\ dom'.stage = "done")
        => LET c == dom'.childId
               before == svgObjects[c]
               after == svgObjects'[c]
               info == after.attachmentInfo IN
           /\ Len(info) = 1
           /\ DOMAIN info[1] = {"parentId", "limbId", "transform"}
           /\ info[1].parentId = dom'.parentId
           /\ info[1].limbId = dom'.limbId
           /\ multiply(dom'.limbMatrix, info[1].transform.matrix) = dom'.childMatrix
           /\ multiply(info[1].transform.matrix, inverse(dom'.childMatrix))
                = inverse(dom'.limbMatrix)
           /\ after.x = 0 /\ after.y = 0
           /\ DOMAIN after = DOMAIN before
           /\ \A k \in DOMAIN before \ AttachFields : after[k] = before[k]
           /\ DOMAIN svgObjects' = DOMAIN svgObjects
           /\ \A id \in DOMAIN svgObjects \ {c} : svgObjects'[id] = svgObjects[id]
           /\ renderedUnder(svgObjects', c) = {<<dom'.parentId, dom'.limbId>>}
     /\ \A id \in DOMAIN svgObjects' :
          svgObjects'[id].attachmentInfo # <<>>
          => /\ id \notin freeStanding(svgObjects')
             /\ renderedUnder(svgObjects', id)
                  \subseteq {<<svgObjects'[id].attachmentInfo[1].parentId,
                               svgObjects'[id].attachmentInfo[1].limbId>>}]_vars

\* C19 witness: the prop, detached earlier with a rotation, has been attached
\* again from screen transforms that differ, while the lamp is attached
AttachEffectWitness ==
  /\ last = "attach"
  /\ dom.stage = "done"
  /\ dom.childId = "objet"
  /\ dom.limbMatrix # dom.childMatrix
  /\ svgObjects["objet"].rotation # <<>>
  /\ svgObjects["objet"].attachmentInfo # <<>>
  /\ svgObjects["lampe"].attachmentInfo # <<>>

\* a reading the operation needs was unavailable
Unreadable(d) ==
  IF d.op = "attach" THEN d.stage \in {"elements", "childSvg", "limb", "ctm"}
  ELSE \/ ~d.attachedElement
       \/ ~d.container
       \/ d.transformState = <<>>
       \/ d.worldMatrix = <<>>

\* C20: Attach and Detach are all-or-nothing: when a screen reading they need
\* is unavailable (for Attach: child or parent not mounted, limb missing, a
\* screen transform missing; for Detach: attached element, container,
\* viewport transform or the element's world matrix missing) no field of any
\* scene object changes.
AttachDetachAllOrNothing ==
  [][(last' \in {"attach", "detach"} /\ Unreadable(dom')) => svgObjects' = svgObjects]_vars

\* the fields a detach writes
DetachFields == {"attachmentInfo", "x", "y", "rotation"}

\* C21: precondition violations are no-ops: an attach requested for a child
\* that already has attachmentInfo leaves its attachmentInfo, x and y (and the
\* whole scene) unchanged, and a detach requested for an object without
\* attachmentInfo leaves its x, y, rotation and attachmentInfo unchanged.
PreconditionNoOp ==
  [][/\ (last' = "attach" /\ svgObjects[dom'.childId].attachmentInfo # <<>>)
        => /\ \A k \in AttachFields :
                svgObjects'[dom'.childId][k] = svgObjects[dom'.childId][k]
           /\ svgObjects' = svgObjects
     /\ (last' = "detach" /\ svgObjects[dom'.childId].attachmentInfo = <<>>)
        => /\ \A k \in DetachFields :
                svgObjects'[dom'.childId][k] = svgObjects[dom'.childId][k]
           /\ svgObjects' = svgObjects]_vars

\* C21 witness: an attach was requested for an attached, visible child to a
\* puppet on the canvas, and returned at the test of the elements
PreconditionNoOpWitness ==
  /\ last = "attach"
  /\ dom.stage = "elements"
  /\ svgObjects[dom.childId].attachmentInfo # <<>>
  /\ ~svgObjects[dom.childId].hidden
  /\ pantinRefs(svgObjects, dom.parentId)
  /\ dom.limbId \in PuppetElementIds

\* an object whose attachmentInfo names a parent that is not in the scene
Orphan(objs, id) ==
  /\ objs[id].attachmentInfo # <<>>
  /\ objs[id].attachmentInfo[1].parentId \notin DOMAIN objs

\* C22: deleting an object removes that object only: every object attached to
\* it stays in the scene with its attachmentInfo (and every other field)
\* unchanged; a later detach of such an orphan changes nothing.
DeleteNoCascade ==
  [][/\ last' = "deleteObject"
        => \E d \in DOMAIN svgObjects :
             /\ DOMAIN svgObjects' = DOMAIN svgObjects \ {d}
             /\ \A id \in DOMAIN svgObjects' : svgObjects'[id] = svgObjects[id]
     /\ (last' = "detach" /\ Orphan(svgObjects, dom'.childId))
        => svgObjects' = svgObjects]_vars

\* C22 witness: a detach was requested for a visible orphan
DeleteNoCascadeWitness ==
  /\ last = "detach"
  /\ Orphan(svgObjects, dom.childId)
  /\ ~svgObjects[dom.childId].hidden
  /\ dom.stage = "elements"

\* twice the centre of an object's box, and its orientation in degrees
TwiceCentreX(obj) == 2 * obj.x + obj.width
TwiceCentreY(obj) == 2 * obj.y + obj.height
Orientation(obj) == IF obj.rotation = <<>> THEN 0 ELSE obj.rotation[1]

Abs(v) == IF v < 0 THEN -v ELSE v

\* the difference of two angles, turns apart taken as equal
AngleDistance(a, b) ==
  LET d == (a - b) % 360 IN IF d > 180 THEN 360 - d ELSE d

\* C23: attach/detach round trip: a detach right after the attach of the same
\* child, with nothing changed in between, gives a standalone object whose box
\* centre is within 1 unit, and whose orientation is within 1 degree, of what
\* the child had before the attach.
AttachDetachRoundTrip ==
  [][(/\ last = "attach" /\ dom.stage = "done"
      /\ last' = "detach" /\ dom'.stage = "done" /\ dom'.childId = dom.childId)
     => LET before == dom.before
            after == svgObjects'[dom.childId] IN
        /\ Abs(TwiceCentreX(after) - TwiceCentreX(before)) <= 2
        /\ Abs(TwiceCentreY(after) - TwiceCentreY(before)) <= 2
        /\ AngleDistance(Orientation(after), Orientation(before)) <= 1]_vars

\* C24: a reset of the timeline (the purge, and the reset of the canvas)
\* empties the tracks, stops playback, returns to frame 0, and leaves fps and
\* duration as the user had set them.
ResetKeepsSettings ==
  [][last' \in {"clear", "resetCanvas"}
     => /\ tracks' = <<>>
        /\ isPlaying' = FALSE
        /\ currentFrame' = 0
        /\ fps' = fps
        /\ duration' = duration]_vars

\* C25: an interactive part without a pivot stays unrotated, whatever angle
\* the articulation map holds for it: the style it is rendered with carries
\* no rotation (none, or one by 0 degrees); the parts with a pivot are rotated
\* by their angle about their pivot.
PivotlessPartUnrotated ==
  \A id \in DOMAIN svgObjects : \A partId \in PoseParts :
    LET articulation == svgObjects[id].articulation
        style == SvgPartStyle(articulation, PosePivots, partId, TRUE)
        angle == IF partId \in DOMAIN articulation THEN articulation[partId] ELSE 0 IN
    IF partId \in PosePivots
    THEN style.transformOrigin = <<partId>> /\ style.transform = <<angle>>
    ELSE style.transform \in {<<>>, <<0>>}

\* C27: an update with a partial articulation patch merges it into the map:
\* every part the patch does not name keeps its angle, every part it names
\* has the patched angle.
ArticulationPatchMerges ==
  [][last' = "updateObject" /\ "articulation" \in DOMAIN dom'.patch
     => LET before == dom'.before.articulation
            patch == dom'.patch.articulation
            after == svgObjects'[dom'.id].articulation IN
        /\ \A part \in DOMAIN before \ DOMAIN patch :
             part \in DOMAIN after /\ after[part] = before[part]
        /\ \A part \in DOMAIN patch :
             part \in DOMAIN after /\ after[part] = patch[part]]_vars

\* C26: the ids of the scene list are unique under creation, spotlight
\* creation and deletion, two creations in one millisecond included.
SceneIdsUnique ==
  \A i \in 1..Len(svgObjects) : \A j \in 1..Len(svgObjects) :
    i # j => svgObjects[i].id # svgObjects[j].id

\* C28: Attach and Detach change the child's scene-object fields only: with
\* auto-keyframe on and playback stopped they leave the tracks and their
\* keyframes as they were.
AttachDetachRecordNothing ==
  [][(last' \in {"attach", "detach"} /\ dom'.stage = "done" /\ autoKeyframe /\ ~isPlaying)
     => tracks' = tracks]_vars

\* the last articulation change of the event: the one the scene keeps
LastEmission(c) == c.emitted[Len(c.emitted)]

\* the move after a press that started a drag comes back to the point of the
\* press: the pointer's angle plus the base angle is the angle the press read
MoveToPressPoint ==
  /\ last = "pointerDown" /\ pantin.started = 1
  /\ last' = "pointerMove" /\ pantin'.emitted # <<>>
  /\ LastEmission(pantin').newAngle
       = currentAngle(pantin.articulation, pantin.activePart, pantin.flipped)

\* the angle the object holds for the canonical part of the drag
StoredAtPress(c) == StoredAngle(c.articulation, controlledPart(c.activePart, c.flipped))

AcrossBoundary(stored, isFlipped) ==
  IF ~isFlipped /\ stored = 180 THEN -180
  ELSE IF isFlipped /\ stored = -180 THEN 180
  ELSE stored

ParentsOf(objs, ids) ==
  {objs[id].attachmentInfo[1].parentId :
     id \in {c \in ids \cap DOMAIN objs : objs[c].attachmentInfo # <<>>}}

RECURSIVE AncestorsFrom(_, _, _)
\* the objects reached from the set ids by following parentId at most n times
AncestorsFrom(objs, ids, n) ==
  IF n = 0 THEN {}
  ELSE ParentsOf(objs, ids) \cup AncestorsFrom(objs, ParentsOf(objs, ids), n - 1)

\* the ids reached from an object by following attachmentInfo.parentId
AncestorsOf(objs, id) == AncestorsFrom(objs, {id}, Cardinality(DOMAIN objs))

\* C30: the attachment relation is acyclic in every reachable state: following
\* attachmentInfo.parentId from an object never leads back to it (no object is
\* attached to itself, no parent to one of its transitive children).
AttachmentAcyclic ==
  \A id \in DOMAIN svgObjects : id \notin AncestorsOf(svgObjects, id)

\* an attach of an object to a puppet that is attached, directly or through
\* another puppet, to that object: it ended at its first test
AttachmentAcyclicWitness ==
  /\ last = "attach"
  /\ dom.stage = "elements"
  /\ dom.childId \in AncestorsOf(svgObjects, dom.parentId)
  /\ ~svgObjects[dom.childId].hidden
  /\ svgObjects[dom.childId].attachmentInfo = <<>>

====
